---- MODULE Spec2Model ----
(***************************************************************************)
(* CantusDB, main_app/views/chant.py: the chant search views, the chant    *)
(* creation view and the folio/feast grouping helpers, as state machines   *)
(* over a small relational store.                                          *)
(*                                                                         *)
(* Text values (column values, GET parameter values) are sequences of      *)
(* one-character strings, so that prefix, substring, case folding and      *)
(* digit tests are computed rather than assumed.                           *)
(***************************************************************************)
EXTENDS Integers, Sequences, FiniteSets, TLC

(***************************************************************************)
(* Bounds of the model                                                     *)
(***************************************************************************)
\* the largest number of keys a modelled GET query string carries
MaxParams == 2

(***************************************************************************)
(* Text                                                                    *)
(***************************************************************************)
\* Python None / SQL NULL where a text value is expected
None == <<"None">>
\* SQL NULL in a foreign-key column
NoId == 0

\* the truth value Python gives a GET value: None and "" are falsy
Truthy(v) == v # None /\ v # <<>>

\* str.lower on one character, as the database folds case for the i-lookups
Lower(c) ==
    CASE c = "A" -> "a" [] c = "B" -> "b" [] c = "C" -> "c" [] c = "D" -> "d"
      [] c = "E" -> "e" [] c = "I" -> "i" [] c = "L" -> "l" [] c = "U" -> "u"
      [] OTHER -> c

ILower(s) == [i \in 1..Len(s) |-> Lower(s[i])]

\* str.isdigit on one character
IsDigit(c) == c \in {"0", "1", "2", "3", "4", "5", "6", "7", "8", "9"}

DigitValue(c) ==
    CASE c = "0" -> 0 [] c = "1" -> 1 [] c = "2" -> 2 [] c = "3" -> 3
      [] c = "4" -> 4 [] c = "5" -> 5 [] c = "6" -> 6 [] c = "7" -> 7
      [] c = "8" -> 8 [] c = "9" -> 9

\* whether int(s) succeeds, for s over the model's characters (no sign, space or underscore)
IsIntLiteral(s) == s # None /\ Len(s) > 0 /\ \A i \in 1..Len(s) : IsDigit(s[i])

RECURSIVE IntValue(_)
IntValue(s) ==
    IF s = <<>> THEN 0
    ELSE 10 * IntValue(SubSeq(s, 1, Len(s) - 1)) + DigitValue(s[Len(s)])

\* the lookup <field>__istartswith=term: a NULL column matches nothing
IStartsWith(text, term) ==
    /\ text # None
    /\ Len(term) <= Len(text)
    /\ SubSeq(ILower(text), 1, Len(term)) = ILower(term)

\* the lookup <field>__icontains=term
IContains(text, term) ==
    /\ text # None
    /\ \E i \in 0..(Len(text) - Len(term)) :
          SubSeq(ILower(text), i + 1, i + Len(term)) = ILower(term)

\* any(map(str.isdigit, term))
ContainsDigits(term) == \E i \in 1..Len(term) : IsDigit(term[i])

\* the words the views compare GET values with
S_true == <<"t", "r", "u", "e">>
S_false == <<"f", "a", "l", "s", "e">>
S_contains == <<"c", "o", "n", "t", "a", "i", "n", "s">>
S_starts_with == <<"s", "t", "a", "r", "t", "s", "_", "w", "i", "t", "h">>
S_desc == <<"d", "e", "s", "c">>
S_asc == <<"a", "s", "c">>
S_incipit == <<"i", "n", "c", "i", "p", "i", "t">>
S_service == <<"s", "e", "r", "v", "i", "c", "e">>
S_genre == <<"g", "e", "n", "r", "e">>
S_cantus_id == <<"c", "a", "n", "t", "u", "s", "_", "i", "d">>
S_mode == <<"m", "o", "d", "e">>
S_feast == <<"f", "e", "a", "s", "t">>
S_siglum == <<"s", "i", "g", "l", "u", "m">>
S_has_fulltext == <<"h", "a", "s", "_", "f", "u", "l", "l", "t", "e", "x", "t">>
S_has_melody == <<"h", "a", "s", "_", "m", "e", "l", "o", "d", "y">>
S_has_image == <<"h", "a", "s", "_", "i", "m", "a", "g", "e">>

(***************************************************************************)
(* The store: Chant and Sequence rows, Source rows, Feast rows             *)
(***************************************************************************)
VARIABLES
    chants,        \* the rows of Chant
    sequences,     \* the rows of Sequence (a table of its own, with its own ids)
    request,       \* the search request being served: view, GET, user, source_pk
    pc,            \* where the search request stands in ListView.get
    object_list,   \* what get_queryset returned
    response,      \* what the caller receives
    previous,      \* the request and the page the caller received before this one
    callers,       \* each chant-creation request: where it stands in form_valid
    context        \* the context ChantDetailView.get_context_data built

\* Source rows: published flag, siglum of the holding institution, segment id
Sources ==
    (1 :> [published |-> TRUE, siglum |-> <<"a">>, segment |-> 4063]) @@
    (2 :> [published |-> FALSE, siglum |-> <<"a">>, segment |-> 4063]) @@
    (3 :> [published |-> TRUE, siglum |-> <<"b">>, segment |-> 4064])

\* Feast rows
Feasts ==
    (1 :> [name |-> <<"A", "b">>]) @@
    (2 :> [name |-> <<"b">>])

\* the columns the views read; kind names the table a row lives in
BaseRecord(kind) ==
    [kind |-> kind, id |-> 1, source |-> 1,
     folio |-> <<"0", "0", "1", "r">>, c_sequence |-> 1,
     feast |-> 1, service |-> 1, genre |-> 1,
     cantus_id |-> <<"A", "1">>, mode |-> <<"1">>, position |-> <<"1">>,
     volpiano |-> <<"1">>,
     manuscript_full_text |-> <<"b">>,
     manuscript_full_text_std_spelling |-> <<"b">>,
     incipit |-> <<"A", "b">>,
     image_link |-> None, indexing_notes |-> None, siglum |-> <<"a">>]

\* source__published=True: the join drops rows without a source
SourcePublished(r) == r.source # NoId /\ Sources[r.source].published

(***************************************************************************)
(* Q objects: a conjunction (sequence) of disjunctions (sequences) of      *)
(* field lookups                                                           *)
(***************************************************************************)
Lookup(name, value) == [lookup |-> name, value |-> value]

\* a slip for QAnd: "q_obj_filter = Q(...)" in place of "q_obj_filter &= Q(...)"
QAnd_Overwrite(q, lookup) == <<<<lookup>>>>

\* Q(a) & Q(b): q_obj_filter &= Q(...)
QAnd(q, lookup) == Append(q, <<lookup>>)

EvalLookup(c, r) ==
    CASE c.lookup = "service__id" ->
            r.service # NoId /\ r.service = IntValue(c.value)
      [] c.lookup = "genre__id" ->
            r.genre # NoId /\ r.genre = IntValue(c.value)
      [] c.lookup = "cantus_id__icontains" -> IContains(r.cantus_id, c.value)
      [] c.lookup = "mode" -> r.mode # None /\ r.mode = c.value
      [] c.lookup = "position" -> r.position # None /\ r.position = c.value
      [] c.lookup = "volpiano__isnull" -> (r.volpiano = None) = c.value
      [] c.lookup = "feast__name__icontains" ->
            r.feast # NoId /\ IContains(Feasts[r.feast].name, c.value)
      [] c.lookup = "manuscript_full_text__icontains" ->
            IContains(r.manuscript_full_text, c.value)
      [] c.lookup = "manuscript_full_text_std_spelling__icontains" ->
            IContains(r.manuscript_full_text_std_spelling, c.value)
      [] c.lookup = "incipit__icontains" -> IContains(r.incipit, c.value)
      [] c.lookup = "manuscript_full_text__istartswith" ->
            IStartsWith(r.manuscript_full_text, c.value)
      [] c.lookup = "manuscript_full_text_std_spelling__istartswith" ->
            IStartsWith(r.manuscript_full_text_std_spelling, c.value)
      [] c.lookup = "incipit__istartswith" -> IStartsWith(r.incipit, c.value)
      [] c.lookup = "indexing_notes__icontains" -> IContains(r.indexing_notes, c.value)
      [] c.lookup = "indexing_notes__istartswith" -> IStartsWith(r.indexing_notes, c.value)

\* queryset.filter(q)
Filter(rows, q) ==
    {r \in rows : \A i \in 1..Len(q) : \E j \in 1..Len(q[i]) : EvalLookup(q[i][j], r)}

\* request.GET.get(key)
Get(GET, key) == IF key \in DOMAIN GET THEN GET[key] ELSE None

(***************************************************************************)
(* Querysets: the rows selected from each table and the ordering asked for *)
(***************************************************************************)
\* Chant.objects.none()
EmptyQuerySet ==
    [status |-> "ok", chant_set |-> {}, sequence_set |-> {},
     order |-> "id", desc |-> FALSE]

\* the conversion failure int() and the id lookup raise
RaisedValueError ==
    [status |-> "ValueError", chant_set |-> {}, sequence_set |-> {},
     order |-> "id", desc |-> FALSE]

(***************************************************************************)
(* ChantSearchView.get_queryset                                            *)
(***************************************************************************)
\* a step a plausible slip would make of NoParameters: the test is left out
NoParameters_Never(GET) == FALSE

\* "if not self.request.GET": the query string carries no key at all
NoParameters(GET) == DOMAIN GET = {}

\* a slip for VisibleTo: the published test is left out
VisibleTo_Everything(rows, display_unpublished) == rows

\* lines 448-469: one conjunct per GET value that is truthy
SearchFilter(GET) ==
    LET q0 == <<>>
        q1 == IF Truthy(Get(GET, "service"))
              THEN QAnd(q0, Lookup("service__id", Get(GET, "service"))) ELSE q0
        q2 == IF Truthy(Get(GET, "genre"))
              THEN QAnd(q1, Lookup("genre__id", Get(GET, "genre"))) ELSE q1
        q3 == IF Truthy(Get(GET, "cantus_id"))
              THEN QAnd(q2, Lookup("cantus_id__icontains", Get(GET, "cantus_id"))) ELSE q2
        q4 == IF Truthy(Get(GET, "mode"))
              THEN QAnd(q3, Lookup("mode", Get(GET, "mode"))) ELSE q3
        q5 == IF Truthy(Get(GET, "position"))
              THEN QAnd(q4, Lookup("position", Get(GET, "position"))) ELSE q4
        q6 == IF Truthy(Get(GET, "melodies")) /\ Get(GET, "melodies") = S_true
              THEN QAnd(q5, Lookup("volpiano__isnull", FALSE)) ELSE q5
        q7 == IF Truthy(Get(GET, "feast"))
              THEN QAnd(q6, Lookup("feast__name__icontains", Get(GET, "feast"))) ELSE q6
    IN  q7

\* lines 448-452, 479: int(genre_id) and the service__id lookup raise
\* ValueError on a value that is no integer
SearchFilterRaises(GET) ==
    \/ Truthy(Get(GET, "service")) /\ ~IsIntLiteral(Get(GET, "service"))
    \/ Truthy(Get(GET, "genre")) /\ ~IsIntLiteral(Get(GET, "genre"))

\* a slip for KeywordFilter: the operation is not looked at
KeywordFilter_AlwaysContains(keyword, operation) ==
    << << Lookup("manuscript_full_text__icontains", keyword),
          Lookup("manuscript_full_text_std_spelling__icontains", keyword),
          Lookup("incipit__icontains", keyword) >> >>

\* lines 487-504: the keyword over the three text columns
KeywordFilter(keyword, operation) ==
    IF Truthy(operation) /\ operation = S_contains
    THEN << << Lookup("manuscript_full_text__icontains", keyword),
               Lookup("manuscript_full_text_std_spelling__icontains", keyword),
               Lookup("incipit__icontains", keyword) >> >>
    ELSE << << Lookup("manuscript_full_text__istartswith", keyword),
               Lookup("manuscript_full_text_std_spelling__istartswith", keyword),
               Lookup("incipit__istartswith", keyword) >> >>

\* a slip for SearchBarFilter: the term is looked for at the beginning of the
\* texts whether it has a digit or not
SearchBarFilter_TextOnly(term) ==
    << << Lookup("manuscript_full_text__istartswith", term),
          Lookup("manuscript_full_text_std_spelling__istartswith", term),
          Lookup("incipit__istartswith", term) >> >>

\* lines 418-443: the search bar looks for a Cantus ID when the term has a
\* digit, for the beginning of a text otherwise
SearchBarFilter(term) ==
    IF ContainsDigits(term)
    THEN QAnd(<<>>, Lookup("cantus_id__icontains", term))
    ELSE << << Lookup("manuscript_full_text__istartswith", term),
               Lookup("manuscript_full_text_std_spelling__istartswith", term),
               Lookup("incipit__istartswith", term) >> >>

\* lines 404-409, 471-476: what the user may see of a table
VisibleTo(rows, display_unpublished) ==
    IF display_unpublished THEN rows ELSE {r \in rows : SourcePublished(r)}

\* a slip for SearchOrderField: the three has_ names are not translated and
\* fall to the default
SearchOrderField_NoAliases(order_get_param) ==
    IF order_get_param = S_incipit THEN "incipit"
    ELSE IF order_get_param = S_service THEN "service"
    ELSE IF order_get_param = S_genre THEN "genre"
    ELSE IF order_get_param = S_cantus_id THEN "cantus_id"
    ELSE IF order_get_param = S_mode THEN "mode"
    ELSE "source__holding_institution__siglum"

\* lines 519-539: the column the order parameter names
SearchOrderField(order_get_param) ==
    IF order_get_param \in {S_incipit, S_service, S_genre, S_cantus_id, S_mode,
                            S_has_fulltext, S_has_melody, S_has_image}
    THEN IF order_get_param = S_has_fulltext THEN "manuscript_full_text"
         ELSE IF order_get_param = S_has_melody THEN "volpiano"
         ELSE IF order_get_param = S_has_image THEN "image_link"
         ELSE IF order_get_param = S_incipit THEN "incipit"
         ELSE IF order_get_param = S_service THEN "service"
         ELSE IF order_get_param = S_genre THEN "genre"
         ELSE IF order_get_param = S_cantus_id THEN "cantus_id"
         ELSE "mode"
    ELSE "source__holding_institution__siglum"

\* lines 541-543
SearchDescending(sort_get_param) == Truthy(sort_get_param) /\ sort_get_param = S_desc

ChantSearchView_get_queryset(GET, is_authenticated) ==
    IF NoParameters(GET) THEN EmptyQuerySet
    ELSE
    LET display_unpublished == is_authenticated
        order == SearchOrderField(Get(GET, "order"))
        desc == SearchDescending(Get(GET, "sort"))
    IN  IF Truthy(Get(GET, "search_bar"))
        THEN LET q == SearchBarFilter(Get(GET, "search_bar"))
             IN  [status |-> "ok",
                  chant_set |-> Filter(VisibleTo(chants, display_unpublished), q),
                  sequence_set |-> Filter(VisibleTo(sequences, display_unpublished), q),
                  order |-> order, desc |-> desc]
        ELSE IF SearchFilterRaises(GET) THEN RaisedValueError
        ELSE LET q_obj_filter == SearchFilter(GET)
                 chant_set == Filter(VisibleTo(chants, display_unpublished), q_obj_filter)
                 sequence_set == Filter(VisibleTo(sequences, display_unpublished), q_obj_filter)
                 keyword_filter == KeywordFilter(Get(GET, "keyword"), Get(GET, "op"))
             IN  IF Truthy(Get(GET, "keyword"))
                 THEN [status |-> "ok",
                       chant_set |-> Filter(chant_set, keyword_filter),
                       sequence_set |-> Filter(sequence_set, keyword_filter),
                       order |-> order, desc |-> desc]
                 ELSE [status |-> "ok",
                       chant_set |-> chant_set, sequence_set |-> sequence_set,
                       order |-> order, desc |-> desc]

(***************************************************************************)
(* ChantSearchMSView.get_queryset                                          *)
(***************************************************************************)
\* lines 674-694
SearchMSFilter(GET) ==
    LET q0 == <<>>
        q1 == IF Truthy(Get(GET, "service"))
              THEN QAnd(q0, Lookup("service__id", Get(GET, "service"))) ELSE q0
        q2 == IF Truthy(Get(GET, "genre"))
              THEN QAnd(q1, Lookup("genre__id", Get(GET, "genre"))) ELSE q1
        q3 == IF Truthy(Get(GET, "cantus_id"))
              THEN QAnd(q2, Lookup("cantus_id__icontains", Get(GET, "cantus_id"))) ELSE q2
        q4 == IF Truthy(Get(GET, "mode"))
              THEN QAnd(q3, Lookup("mode", Get(GET, "mode"))) ELSE q3
        q5 == IF Truthy(Get(GET, "melodies")) /\ Get(GET, "melodies") = S_true
              THEN QAnd(q4, Lookup("volpiano__isnull", FALSE)) ELSE q4
        q6 == IF Truthy(Get(GET, "melodies")) /\ Get(GET, "melodies") = S_false
              THEN QAnd(q5, Lookup("volpiano__isnull", TRUE)) ELSE q5
        q7 == IF Truthy(Get(GET, "feast"))
              THEN QAnd(q6, Lookup("feast__name__icontains", Get(GET, "feast"))) ELSE q6
    IN  q7

\* lines 696-715: a missing order parameter reads "siglum"
SearchMSOrderField(GET) ==
    LET order_value == IF "order" \in DOMAIN GET THEN GET["order"] ELSE S_siglum
    IN  IF order_value = S_siglum THEN "siglum"
        ELSE IF order_value = S_incipit THEN "incipit"
        ELSE IF order_value = S_genre THEN "genre"
        ELSE IF order_value = S_cantus_id THEN "cantus_id"
        ELSE IF order_value = S_mode THEN "mode"
        ELSE IF order_value = S_feast THEN "feast"
        ELSE IF order_value = S_service THEN "service"
        ELSE IF order_value = S_has_fulltext THEN "manuscript_full_text"
        ELSE IF order_value = S_has_melody THEN "volpiano"
        ELSE IF order_value = S_has_image THEN "image_link"
        ELSE "siglum"

\* lines 717-718
SearchMSDescending(GET) == Truthy(Get(GET, "sort")) /\ Get(GET, "sort") = S_desc

\* lines 751-758
IndexingNotesFilter(notes, operation) ==
    IF operation = S_contains
    THEN QAnd(<<>>, Lookup("indexing_notes__icontains", notes))
    ELSE QAnd(<<>>, Lookup("indexing_notes__istartswith", notes))

\* lines 733-749; unlike the global view, op is compared without a truth test
KeywordMSFilter(keyword, operation) ==
    IF operation = S_contains
    THEN << << Lookup("manuscript_full_text__icontains", keyword),
               Lookup("manuscript_full_text_std_spelling__icontains", keyword),
               Lookup("incipit__icontains", keyword) >> >>
    ELSE << << Lookup("manuscript_full_text__istartswith", keyword),
               Lookup("manuscript_full_text_std_spelling__istartswith", keyword),
               Lookup("incipit__istartswith", keyword) >> >>

\* the source whose melodies are not shown (line 667)
MelodyExcludedSource == 680970
\* the segment whose sources hold sequences (line 723)
SequenceSegment == 4064

\* a slip for OfSource: the table is not narrowed to the source
OfSource_WholeTable(rows, source_id) == rows

\* source.sequence_set / source.chant_set
OfSource(rows, source_id) == {r \in rows : r.source = source_id}

ChantSearchMSView_get_queryset(GET, source_pk) ==
    IF NoParameters(GET) THEN EmptyQuerySet
    ELSE IF Get(GET, "melodies") = S_true /\ source_pk = MelodyExcludedSource
    THEN EmptyQuerySet
    ELSE IF Truthy(Get(GET, "genre")) /\ ~IsIntLiteral(Get(GET, "genre"))
    THEN RaisedValueError
    ELSE IF source_pk \notin DOMAIN Sources
    THEN [RaisedValueError EXCEPT !.status = "DoesNotExist"]
    ELSE IF Truthy(Get(GET, "service")) /\ ~IsIntLiteral(Get(GET, "service"))
    THEN RaisedValueError
    ELSE
    LET q_obj_filter == SearchMSFilter(GET)
        source == Sources[source_pk]
        use_sequences == source.segment = SequenceSegment
        queryset0 == IF use_sequences THEN OfSource(sequences, source_pk)
                     ELSE OfSource(chants, source_pk)
        queryset1 == Filter(queryset0, q_obj_filter)
        queryset2 == IF Truthy(Get(GET, "keyword"))
                     THEN Filter(queryset1,
                                 KeywordMSFilter(Get(GET, "keyword"), Get(GET, "op")))
                     ELSE queryset1
        queryset3 == IF Truthy(Get(GET, "indexing_notes"))
                     THEN Filter(queryset2,
                                 IndexingNotesFilter(Get(GET, "indexing_notes"),
                                                     Get(GET, "indexing_notes_op")))
                     ELSE queryset2
    IN  [status |-> "ok",
         chant_set |-> IF use_sequences THEN {} ELSE queryset3,
         sequence_set |-> IF use_sequences THEN queryset3 ELSE {},
         order |-> SearchMSOrderField(GET), desc |-> SearchMSDescending(GET)]

(***************************************************************************)
(* order_by(order, "id") and the evaluation of a queryset                  *)
(***************************************************************************)
\* the collation of the characters column values are made of
CharRank(c) ==
    CASE c = "0" -> 48 [] c = "1" -> 49 [] c = "2" -> 50 [] c = "r" -> 114
      [] c = "A" -> 65 [] c = "B" -> 66 [] c = "a" -> 97 [] c = "b" -> 98
      [] OTHER -> 127

TextKey(text) ==
    IF text = None THEN [null |-> TRUE, v |-> <<>>]
    ELSE [null |-> FALSE, v |-> [i \in 1..Len(text) |-> CharRank(text[i])]]

IdKey(id) ==
    IF id = NoId THEN [null |-> TRUE, v |-> <<>>] ELSE [null |-> FALSE, v |-> <<id>>]

\* the value a row is ordered by
OrderKey(r, field) ==
    CASE field = "incipit" -> TextKey(r.incipit)
      [] field = "cantus_id" -> TextKey(r.cantus_id)
      [] field = "mode" -> TextKey(r.mode)
      [] field = "manuscript_full_text" -> TextKey(r.manuscript_full_text)
      [] field = "volpiano" -> TextKey(r.volpiano)
      [] field = "image_link" -> TextKey(r.image_link)
      [] field = "siglum" -> TextKey(r.siglum)
      [] field = "service" -> IdKey(r.service)
      [] field = "genre" -> IdKey(r.genre)
      [] field = "feast" -> IdKey(r.feast)
      [] field = "id" -> IdKey(r.id)
      [] field = "source__holding_institution__siglum" ->
            IF r.source = NoId THEN TextKey(None) ELSE TextKey(Sources[r.source].siglum)

LexLess(a, b) ==
    \E i \in 1..(Len(a) + 1) :
        /\ i <= Len(b)
        /\ \A j \in 1..(i - 1) : a[j] = b[j]
        /\ (i > Len(a) \/ a[i] < b[i])

\* ascending order of one column: NULL sorts after every value
KeyLess(x, y) ==
    \/ ~x.null /\ y.null
    \/ ~x.null /\ ~y.null /\ LexLess(x.v, y.v)

\* a row with the value it is ordered by
Keyed(r, field) == [key |-> OrderKey(r, field), id |-> r.id, row |-> r]

\* a slip for Before: DESC applied to the id as well
Before_IdReversed(x, y, desc) ==
    \/ IF desc THEN KeyLess(y.key, x.key) ELSE KeyLess(x.key, y.key)
    \/ x.key = y.key /\ (IF desc THEN y.id < x.id ELSE x.id < y.id)

\* ORDER BY field [DESC], id places x before y
Before(x, y, desc) ==
    \/ IF desc THEN KeyLess(y.key, x.key) ELSE KeyLess(x.key, y.key)
    \/ x.key = y.key /\ x.id < y.id

\* row a is placed before row b by ORDER BY field [DESC], id
Precedes(a, b, field, desc) == Before(Keyed(a, field), Keyed(b, field), desc)

\* the rows whose id lies in lo..hi, laid out by id, a chant before the
\* sequence that has the same id
RECURSIVE ById(_, _, _)
ById(rows, lo, hi) ==
    IF lo > hi THEN <<>>
    ELSE IF lo = hi
    THEN LET same == {r \in rows : r.id = lo}
             first == {r \in same : r.kind = "chant"}
         IN  IF same = {} THEN <<>>
             ELSE IF Cardinality(same) = 1 THEN <<CHOOSE r \in same : TRUE>>
             ELSE <<CHOOSE r \in first : TRUE, CHOOSE r \in same \ first : TRUE>>
    ELSE LET mid == (lo + hi) \div 2
             low == {r \in rows : r.id <= mid}
         IN  ById(low, lo, mid) \o ById(rows \ low, mid + 1, hi)

MaxId(rows) == CHOOSE i \in {r.id : r \in rows} : \A r \in rows : r.id <= i

\* the rows sorted by ORDER BY field [DESC], id
Sorted(rows, field, desc) ==
    IF rows = {} THEN <<>>
    ELSE LET s == ById(rows, 1, MaxId(rows))
             keyed == [i \in 1..Len(s) |-> Keyed(s[i], field)]
         IN  SortSeq(keyed, LAMBDA x, y : Before(x, y, desc))

\* the maximal runs of positions of a sorted sequence whose rows ORDER BY does
\* not separate
TiedRuns(sorted, desc) ==
    LET n == Len(sorted)
        tied == [i \in 1..n |-> i < n /\ ~Before(sorted[i], sorted[i + 1], desc)]
        starts == {i \in 1..n : tied[i] /\ (i = 1 \/ ~tied[i - 1])}
    IN  {a..(CHOOSE b \in (a + 1)..n : ~tied[b]) : a \in starts}

\* every order in which the database may return the rows: rows that the
\* ORDER BY clause does not separate come in any order
Linearizations(rows, field, desc) ==
    LET sorted == Sorted(rows, field, desc)
        runs == TiedRuns(sorted, desc)
        shuffles == {f \in [runs -> UNION {Permutations(run) : run \in runs}] :
                        \A run \in runs : f[run] \in Permutations(run)}
    IN  { [i \in 1..Len(sorted) |->
              IF \E run \in runs : i \in run
              THEN sorted[f[CHOOSE run \in runs : i \in run][i]].row
              ELSE sorted[i].row] : f \in shuffles }

\* a slip for UnionAll: union() without all=True, which keeps one of the rows
\* that agree on every selected column
UnionAll_Distinct(chant_set, sequence_set) ==
    chant_set \cup {q \in sequence_set : \A c \in chant_set : [q EXCEPT !.kind = c.kind] # c}

\* chant_set.union(sequence_set, all=True): every row of both tables
UnionAll(chant_set, sequence_set) == chant_set \cup sequence_set

\* the rows a queryset yields when it is evaluated
Evaluations(qs) ==
    Linearizations(UnionAll(qs.chant_set, qs.sequence_set), qs.order, qs.desc)

(***************************************************************************)
(* Pagination (paginate_by = 100)                                          *)
(***************************************************************************)
paginate_by == 100

S_last == <<"l", "a", "s", "t">>

\* Paginator.num_pages with allow_empty_first_page
NumPages(count) == IF count = 0 THEN 1 ELSE (count + paginate_by - 1) \div paginate_by

\* the page number asked for, 0 when there is no such page
PageNumber(page_param, count) ==
    LET page == IF Truthy(page_param) THEN page_param ELSE <<"1">>
        number == IF IsIntLiteral(page) THEN IntValue(page)
                  ELSE IF page = S_last THEN NumPages(count) ELSE 0
    IN  IF number >= 1 /\ number <= NumPages(count) THEN number ELSE 0

\* Paginator.page(number).object_list
PageOf(rows, number) ==
    LET bottom == (number - 1) * paginate_by
        top == IF bottom + paginate_by >= Len(rows) THEN Len(rows) ELSE bottom + paginate_by
    IN  SubSeq(rows, bottom + 1, top)

(***************************************************************************)
(* The search requests: ListView.get runs get_queryset, then               *)
(* get_context_data (which paginates), then renders                        *)
(***************************************************************************)
NoRequest == [view |-> "none", GET |-> <<>>, is_authenticated |-> FALSE, source_pk |-> NoId]
NoResponse == [status |-> "none", rows |-> <<>>]

\* the values a GET key takes in the modelled requests
ParamValues(key) ==
    CASE key \in {"service", "genre"} -> {<<>>, <<"1">>, <<"a">>}
      [] key \in {"mode", "position"} -> {<<>>, <<"1">>}
      [] key \in {"cantus_id", "feast", "keyword", "indexing_notes"} -> {<<>>, <<"a">>}
      [] key = "melodies" -> {<<>>, S_true, S_false}
      [] key = "op" -> {S_contains, S_starts_with}
      [] key = "indexing_notes_op" -> {S_contains}
      [] key = "search_bar" -> {<<>>, <<"1">>, <<"a">>}
      [] key = "order" -> {S_incipit}
      [] key = "sort" -> {S_desc}
      [] key = "page" -> {<<"1">>, <<"2">>}

SearchKeys ==
    {"service", "genre", "cantus_id", "mode", "position", "melodies", "feast",
     "keyword", "op", "search_bar", "order", "sort", "page"}

SearchMSKeys == (SearchKeys \ {"search_bar"}) \cup {"indexing_notes", "indexing_notes_op"}

\* every query string over the given keys
RECURSIVE QueryDicts(_)
QueryDicts(keys) ==
    IF keys = {} THEN {<<>>}
    ELSE LET key == CHOOSE k \in keys : TRUE
         IN  {(key :> v) @@ g : v \in ParamValues(key), g \in QueryDicts(keys \ {key})}

\* the query strings with at most MaxParams keys
GETs(keys) ==
    UNION {QueryDicts(K) : K \in {K \in SUBSET keys : Cardinality(K) <= MaxParams}}

SearchGETs == GETs(SearchKeys)
SearchMSGETs == GETs(SearchMSKeys)

\* the source ids a per-source request names: three sources and one id without a row
SourcePks == {1, 2, 3, 4}

ServerError == [status |-> "500", rows |-> <<>>]

ChantSearch ==
    /\ pc = "idle"
    /\ \E GET \in SearchGETs, is_authenticated \in BOOLEAN :
          LET qs == ChantSearchView_get_queryset(GET, is_authenticated)
          IN  /\ request' = [view |-> "ChantSearchView", GET |-> GET,
                             is_authenticated |-> is_authenticated, source_pk |-> NoId]
              /\ object_list' = qs
              /\ pc' = IF qs.status = "ok" THEN "get_context_data" ELSE "done"
              /\ response' = IF qs.status = "ok" THEN response ELSE ServerError
    /\ UNCHANGED <<chants, sequences, previous, callers, context>>

ChantSearchMS ==
    /\ pc = "idle"
    /\ \E GET \in SearchMSGETs, is_authenticated \in BOOLEAN, source_pk \in SourcePks :
          LET qs == ChantSearchMSView_get_queryset(GET, source_pk)
          IN  /\ request' = [view |-> "ChantSearchMSView", GET |-> GET,
                             is_authenticated |-> is_authenticated, source_pk |-> source_pk]
              /\ object_list' = qs
              /\ pc' = IF qs.status = "ok" THEN "get_context_data" ELSE "done"
              /\ response' = IF qs.status = "ok" THEN response ELSE ServerError
    /\ UNCHANGED <<chants, sequences, previous, callers, context>>

\* MultipleObjectMixin.get_context_data: the page of the evaluated queryset,
\* Http404 when the page does not exist
Paginated(rows, page_param) ==
    LET number == PageNumber(page_param, Len(rows))
    IN  IF number = 0 THEN [status |-> "404", rows |-> <<>>]
        ELSE [status |-> "200", rows |-> PageOf(rows, number)]

ChantSearchView_get_context_data ==
    /\ pc = "get_context_data"
    /\ request.view = "ChantSearchView"
    /\ \E rows \in Evaluations(object_list) :
          response' = Paginated(rows, Get(request.GET, "page"))
    /\ pc' = "done"
    /\ UNCHANGED <<chants, sequences, request, object_list, previous, callers, context>>

\* a slip for ChantSearchMSView_get_context_data: the test of lines 600-602
\* is left out
ChantSearchMSView_get_context_data_Unguarded ==
    /\ pc = "get_context_data"
    /\ request.view = "ChantSearchMSView"
    /\ \E rows \in Evaluations(object_list) :
          LET page_context == Paginated(rows, Get(request.GET, "page"))
          IN  response' =
                IF page_context.status # "200" THEN page_context
                ELSE IF request.source_pk \notin DOMAIN Sources
                THEN [status |-> "404", rows |-> <<>>]
                ELSE page_context
    /\ pc' = "done"
    /\ UNCHANGED <<chants, sequences, request, object_list, previous, callers, context>>

\* lines 595-602: after the parent's context, the source is looked up and the
\* caller's right to see it is tested
ChantSearchMSView_get_context_data ==
    /\ pc = "get_context_data"
    /\ request.view = "ChantSearchMSView"
    /\ \E rows \in Evaluations(object_list) :
          LET page_context == Paginated(rows, Get(request.GET, "page"))
          IN  response' =
                IF page_context.status # "200" THEN page_context
                ELSE IF request.source_pk \notin DOMAIN Sources
                THEN [status |-> "404", rows |-> <<>>]
                ELSE IF Sources[request.source_pk].published = FALSE
                        /\ request.is_authenticated = FALSE
                THEN [status |-> "403", rows |-> <<>>]
                ELSE page_context
    /\ pc' = "done"
    /\ UNCHANGED <<chants, sequences, request, object_list, previous, callers, context>>

\* the response is sent; the next request starts from the same store
Return ==
    /\ pc = "done"
    /\ pc' = "idle"
    /\ request' = NoRequest
    /\ object_list' = EmptyQuerySet
    /\ response' = NoResponse
    /\ UNCHANGED <<chants, sequences, previous, callers, context>>

(***************************************************************************)
(* The stores the search requests are checked on: one row, the base row or *)
(* the base row with one column changed, or one row in each table          *)
(***************************************************************************)
Deviations(kind) ==
    { [BaseRecord(kind) EXCEPT !.source = 2],
      [BaseRecord(kind) EXCEPT !.source = 3],
      [BaseRecord(kind) EXCEPT !.source = NoId],
      [BaseRecord(kind) EXCEPT !.service = 2],
      [BaseRecord(kind) EXCEPT !.service = NoId],
      [BaseRecord(kind) EXCEPT !.genre = 2],
      [BaseRecord(kind) EXCEPT !.cantus_id = <<"b">>],
      [BaseRecord(kind) EXCEPT !.mode = <<"2">>],
      [BaseRecord(kind) EXCEPT !.position = <<"2">>],
      [BaseRecord(kind) EXCEPT !.volpiano = None],
      [BaseRecord(kind) EXCEPT !.volpiano = <<>>],
      [BaseRecord(kind) EXCEPT !.feast = 2],
      [BaseRecord(kind) EXCEPT !.feast = NoId],
      [BaseRecord(kind) EXCEPT !.incipit = <<"b", "a">>],
      [BaseRecord(kind) EXCEPT !.incipit = <<"b">>],
      [BaseRecord(kind) EXCEPT !.incipit = <<"b">>, !.manuscript_full_text = <<"a">>],
      [BaseRecord(kind) EXCEPT !.incipit = <<"b">>,
                               !.manuscript_full_text_std_spelling = <<"A">>],
      [BaseRecord(kind) EXCEPT !.indexing_notes = <<"b", "A">>] }

Rows(kind) == {BaseRecord(kind)} \cup Deviations(kind)

\* <<chants, sequences>>
SearchStores ==
    {<<{}, {}>>}
    \cup {<<{r}, {}>> : r \in Rows("chant")}
    \cup {<<{}, {r}>> : r \in Rows("sequence")}
    \cup {<<{c}, {q}>> : c \in {BaseRecord("chant"), [BaseRecord("chant") EXCEPT !.source = 2]},
                         q \in {BaseRecord("sequence"), [BaseRecord("sequence") EXCEPT !.source = 2]}}

vars == <<chants, sequences, request, pc, object_list, response, previous, callers, context>>

NoPrevious == [request |-> NoRequest, response |-> NoResponse]
NoCallers == <<>>
NoContext == [status |-> "none"]

InitSearch ==
    /\ \E store \in SearchStores : chants = store[1] /\ sequences = store[2]
    /\ request = NoRequest
    /\ pc = "idle"
    /\ object_list = EmptyQuerySet
    /\ response = NoResponse
    /\ previous = NoPrevious
    /\ callers = NoCallers
    /\ context = NoContext

NextSearch ==
    \/ ChantSearch
    \/ ChantSearchMS
    \/ ChantSearchView_get_context_data
    \/ ChantSearchMSView_get_context_data
    \/ Return

SpecSearch == InitSearch /\ [][NextSearch]_vars

(***************************************************************************)
(* Properties of the search views                                          *)
(***************************************************************************)
Unpublished(r) == r.source # NoId /\ ~Sources[r.source].published

\* C1: whatever the query string and the store, an unauthenticated caller of
\* ChantSearchView or ChantSearchMSView receives no row whose source is
\* unpublished; in the global view get_queryset itself selects none.
C1_UnauthenticatedNeverSeesUnpublished ==
    (request.view # "none" /\ ~request.is_authenticated) =>
        /\ \A i \in 1..Len(response.rows) : ~Unpublished(response.rows[i])
        /\ request.view = "ChantSearchView" =>
              \A r \in object_list.chant_set \cup object_list.sequence_set : ~Unpublished(r)

\* an unauthenticated global search answered with the one published row of a
\* store that also holds a row of an unpublished source
C1_Witness ==
    /\ pc = "done"
    /\ request.view = "ChantSearchView"
    /\ ~request.is_authenticated
    /\ response.status = "200"
    /\ Len(response.rows) = 1
    /\ \E r \in chants \cup sequences : Unpublished(r)

\* the filter parameters of the global search
FilterKeys ==
    {"service", "genre", "cantus_id", "mode", "position", "melodies", "feast", "keyword"}

\* what one parameter asks of a row
SubPredicate(key, GET, r) ==
    CASE key = "service" -> r.service # NoId /\ r.service = IntValue(GET[key])
      [] key = "genre" -> r.genre # NoId /\ r.genre = IntValue(GET[key])
      [] key = "cantus_id" -> IContains(r.cantus_id, GET[key])
      [] key = "mode" -> r.mode = GET[key]
      [] key = "position" -> r.position = GET[key]
      [] key = "melodies" -> (GET[key] = S_true => r.volpiano # None)
      [] key = "feast" -> r.feast # NoId /\ IContains(Feasts[r.feast].name, GET[key])
      [] key = "keyword" ->
            IF Get(GET, "op") = S_contains
            THEN \/ IContains(r.manuscript_full_text, GET[key])
                 \/ IContains(r.manuscript_full_text_std_spelling, GET[key])
                 \/ IContains(r.incipit, GET[key])
            ELSE \/ IStartsWith(r.manuscript_full_text, GET[key])
                 \/ IStartsWith(r.manuscript_full_text_std_spelling, GET[key])
                 \/ IStartsWith(r.incipit, GET[key])

\* the visible rows that satisfy every non-empty filter parameter
Matching(rows, GET, is_authenticated) ==
    {r \in rows :
        /\ is_authenticated \/ SourcePublished(r)
        /\ \A key \in FilterKeys \cap DOMAIN GET :
              GET[key] # <<>> => SubPredicate(key, GET, r)}

C3_NoParametersEmptyResult ==
    (request.view # "none" /\ DOMAIN request.GET = {}) =>
        /\ object_list = EmptyQuerySet
        /\ pc = "done" => response.status # "500"

\* the per-source view asked without parameters for a source that has no row,
\* over a store that is not empty
C3_Witness ==
    /\ request.view = "ChantSearchMSView"
    /\ DOMAIN request.GET = {}
    /\ request.source_pk \notin DOMAIN Sources
    /\ chants # {}
    /\ pc = "get_context_data"

(***************************************************************************)
(* Paging through one search: consecutive requests for the pages of the    *)
(* same search over a store large enough for a second page                 *)
(***************************************************************************)
\* the ids the sequence table may hold beside chants 1..paginate_by
PagedSequenceIds == {1, paginate_by, paginate_by + 1}

PagedChants == {[BaseRecord("chant") EXCEPT !.id = i] : i \in 1..paginate_by}

PagedSequences(ids) == {[BaseRecord("sequence") EXCEPT !.id = i] : i \in ids}

\* a search for every row of the base source, with or without an explicit
\* order and direction, asking for page 1 or page 2
PagedGETs ==
    {g \in UNION {QueryDicts(K \cup {"genre", "page"}) : K \in SUBSET {"order", "sort"}} :
        g["genre"] = <<"1">>}

ChantSearchPage ==
    /\ pc = "idle"
    /\ \E GET \in PagedGETs :
          LET qs == ChantSearchView_get_queryset(GET, FALSE)
          IN  /\ request' = [view |-> "ChantSearchView", GET |-> GET,
                             is_authenticated |-> FALSE, source_pk |-> NoId]
              /\ object_list' = qs
              /\ pc' = IF qs.status = "ok" THEN "get_context_data" ELSE "done"
              /\ response' = IF qs.status = "ok" THEN response ELSE ServerError
    /\ UNCHANGED <<chants, sequences, previous, callers, context>>

\* the response is sent; the caller keeps it while asking for the next page
ReturnPage ==
    /\ pc = "done"
    /\ pc' = "idle"
    /\ previous' = [request |-> request, response |-> response]
    /\ request' = NoRequest
    /\ object_list' = EmptyQuerySet
    /\ response' = NoResponse
    /\ UNCHANGED <<chants, sequences, callers, context>>

InitPages ==
    /\ chants = PagedChants
    /\ \E ids \in SUBSET PagedSequenceIds : sequences = PagedSequences(ids)
    /\ request = NoRequest
    /\ pc = "idle"
    /\ object_list = EmptyQuerySet
    /\ response = NoResponse
    /\ previous = NoPrevious
    /\ callers = NoCallers
    /\ context = NoContext

NextPages ==
    \/ ChantSearchPage
    \/ ChantSearchView_get_context_data
    \/ ReturnPage

SpecPages == InitPages /\ [][NextPages]_vars

WithoutPage(GET) == [key \in DOMAIN GET \ {"page"} |-> GET[key]]

RowsOf(page) == {page[i] : i \in 1..Len(page)}

\* C4: two consecutive pages of the same search, fetched one after the other
\* over an unchanged store, share no row and together hold every row of a
\* result of at most two pages: (order field, id) orders the merged chants
\* and sequences totally.
C4_PagesPartitionResult ==
    (/\ pc = "done"
     /\ response.status = "200"
     /\ previous.response.status = "200"
     /\ WithoutPage(request.GET) = WithoutPage(previous.request.GET)
     /\ request.GET["page"] # previous.request.GET["page"]) =>
        /\ RowsOf(response.rows) \cap RowsOf(previous.response.rows) = {}
        /\ RowsOf(response.rows) \cup RowsOf(previous.response.rows) =
              UnionAll(object_list.chant_set, object_list.sequence_set)

(***************************************************************************)
(* ChantCreateView.form_valid, run by several callers against one store.   *)
(* Each database statement is one step: the exists() query of lines        *)
(* 890-899 and the INSERT behind super().form_valid(form) of line 912.     *)
(* Each caller submits one form.                                           *)
(***************************************************************************)
NumCallers == 2

Callers == 1..NumCallers

IncipitLimit == 30

\* str.split(" ")
RECURSIVE Split(_)
Split(s) ==
    IF \A i \in 1..Len(s) : s[i] # " " THEN <<s>>
    ELSE LET i == CHOOSE i \in 1..Len(s) : s[i] = " " /\ \A j \in 1..(i - 1) : s[j] # " "
         IN  <<SubSeq(s, 1, i - 1)>> \o Split(SubSeq(s, i + 1, Len(s)))

\* str.strip(" ")
RECURSIVE Strip(_)
Strip(s) ==
    IF s = <<>> THEN s
    ELSE IF Head(s) = " " THEN Strip(Tail(s))
    ELSE IF s[Len(s)] = " " THEN Strip(SubSeq(s, 1, Len(s) - 1))
    ELSE s

\* the loop of lines 881-886
RECURSIVE IncipitLoop(_, _)
IncipitLoop(words, incipit) ==
    IF words = <<>> THEN incipit
    ELSE LET new_incipit == incipit \o Head(words) \o <<" ">>
         IN  IF Len(new_incipit) >= IncipitLimit THEN incipit
             ELSE IncipitLoop(Tail(words), new_incipit)

ComputeIncipit(manuscript_full_text_std_spelling) ==
    Strip(IncipitLoop(Split(manuscript_full_text_std_spelling), <<>>))

Position(r) == <<r.source, r.folio, r.c_sequence>>

\* Chant.objects.all().filter(source=, folio=, c_sequence=).exists()
Exists(stored, instance) == \E c \in stored : Position(c) = Position(instance)

DuplicateError == "Chant with the same sequence and folio already exists in this source."

\* form.is_valid() on a bound form: no error is attached
IsValid_Always(errors) == TRUE

IsValid(errors) == errors = {}

\* the INSERT of a table that rejects a row whose position is taken
Insert_UniquePosition(stored, row) ==
    IF \E c \in stored : Position(c) = Position(row) THEN stored ELSE stored \cup {row}

\* the INSERT issued by form.save(): the table takes any row with a fresh id
Insert(stored, row) == stored \cup {row}

\* the id the database gives the next row
NextId(stored) == IF stored = {} THEN 1 ELSE MaxId(stored) + 1

\* the forms submitted: cleaned data of a form that passed field validation
Forms ==
    [source : {1, 2},
     folio : {<<"0", "0", "1", "r">>, <<"0", "0", "1", "v">>},
     c_sequence : {1, 2},
     manuscript_full_text_std_spelling : {<<"A", " ", "b">>}]

IdleCaller == [pc |-> "idle", instance |-> <<>>, errors |-> {}, response |-> "none"]

\* form.instance after lines 877-888
Instance(form) ==
    [BaseRecord("chant") EXCEPT
        !.id = NoId,
        !.source = form.source,
        !.folio = form.folio,
        !.c_sequence = form.c_sequence,
        !.siglum = Sources[form.source].siglum,
        !.manuscript_full_text_std_spelling = form.manuscript_full_text_std_spelling,
        !.incipit = ComputeIncipit(form.manuscript_full_text_std_spelling)]

\* lines 877-903: source and incipit are set, the existence query runs and its
\* answer decides whether the error is attached
ChantCreateView_form_valid_exists(p) ==
    /\ callers[p].pc = "idle"
    /\ \E form \in Forms :
          LET instance == Instance(form)
          IN  callers' = [callers EXCEPT ![p] =
                  [pc |-> "is_valid",
                   instance |-> instance,
                   errors |-> IF Exists(chants, instance) THEN {DuplicateError} ELSE {},
                   response |-> "none"]]
    /\ UNCHANGED <<chants, sequences, request, pc, object_list, response, previous, context>>

\* lines 905-913: a form without error is saved and answered with the
\* redirect, a form with an error is rendered again
ChantCreateView_form_valid_save(p) ==
    /\ callers[p].pc = "is_valid"
    /\ IF IsValid(callers[p].errors)
       THEN /\ chants' = Insert(chants, [callers[p].instance EXCEPT !.id = NextId(chants)])
            /\ callers' = [callers EXCEPT ![p].pc = "done", ![p].response = "form_valid"]
       ELSE /\ chants' = chants
            /\ callers' = [callers EXCEPT ![p].pc = "done", ![p].response = "form_invalid"]
    /\ UNCHANGED <<sequences, request, pc, object_list, response, previous, context>>

\* the stores creation starts from hold at most one chant
InitCreate ==
    /\ chants \in {{}, {BaseRecord("chant")}}
    /\ sequences = {}
    /\ request = NoRequest
    /\ pc = "idle"
    /\ object_list = EmptyQuerySet
    /\ response = NoResponse
    /\ previous = NoPrevious
    /\ callers = [p \in Callers |-> IdleCaller]
    /\ context = NoContext

NextCreate ==
    \E p \in Callers :
        \/ ChantCreateView_form_valid_exists(p)
        \/ ChantCreateView_form_valid_save(p)

SpecCreate == InitCreate /\ [][NextCreate]_vars

\* C5: a form whose position (source, folio, c_sequence) is taken when the
\* existence query runs receives the duplicate-position error; a form with
\* that error is answered with the invalid-form response and its step leaves
\* the stored chants unchanged.
C5_DuplicateRejectedNothingPersisted ==
    [][\A p \in Callers :
          /\ (callers[p].pc = "idle" /\ callers'[p].pc = "is_valid"
              /\ Exists(chants, callers'[p].instance))
                => DuplicateError \in callers'[p].errors
          /\ (callers[p].pc = "is_valid" /\ callers'[p].pc = "done"
              /\ DuplicateError \in callers[p].errors)
                => callers'[p].response = "form_invalid" /\ chants' = chants]_vars

\* a caller whose form named the position of a stored chant has been answered
\* with the invalid form
C5_Witness ==
    \E p \in Callers :
        /\ callers[p].pc = "done"
        /\ callers[p].response = "form_invalid"
        /\ DuplicateError \in callers[p].errors
        /\ Exists(chants, callers[p].instance)

\* C6: no two stored chants of the same source have the same folio and
\* c_sequence, in every state reachable through chant-creation requests.
C6_PositionUniqueInSource ==
    \A a, b \in chants : Position(a) = Position(b) => a = b

\* C7: nothing but the existence query guards a position: a form that passed
\* the query is saved and answered with the redirect whatever the store holds
\* by then, so two forms for one position that both passed the query before
\* either was saved are both persisted.
C7_CheckThenInsertRace ==
    [][\A p \in Callers :
          (callers[p].pc = "is_valid" /\ callers'[p].pc = "done"
           /\ callers[p].errors = {})
            => /\ callers'[p].response = "form_valid"
               /\ \E c \in chants' \ chants : Position(c) = Position(callers[p].instance)]_vars

\* both callers were answered with the redirect and their two chants, of the
\* same position, are stored
C7_Witness ==
    /\ \A p \in Callers : callers[p].pc = "done" /\ callers[p].response = "form_valid"
    /\ \A p, q \in Callers : Position(callers[p].instance) = Position(callers[q].instance)
    /\ Cardinality({c \in chants : Position(c) = Position(callers[1].instance)}) = NumCallers

(***************************************************************************)
(* ChantDetailView.get_context_data and get_chants_with_feasts             *)
(***************************************************************************)
MaxDetailChants == 3

\* the sequences that hold every element of a set once
Orderings(S) ==
    {s \in [1..Cardinality(S) -> S] : \A i, j \in 1..Cardinality(S) : s[i] = s[j] => i = j}

\* a c_sequence that is NULL
NullCSequence == -1

\* a queryset ordered by c_sequence alone, evaluated: rows with equal
\* c_sequence come in any order, rows whose c_sequence is NULL come last
OrderByCSequence(rows) ==
    {s \in Orderings(rows) :
        \A i, j \in 1..Len(s) :
           i < j => \/ s[j].c_sequence = NullCSequence
                    \/ /\ s[i].c_sequence # NullCSequence
                       /\ s[i].c_sequence <= s[j].c_sequence}

\* feasts_chants[key] after the loop of lines 140-146; the key of the chants
\* without a feast, None, is written NoId
FeastsChants_Reversed(chants_in_folio, key) ==
    LET kept == SelectSeq(chants_in_folio, LAMBDA chant : chant.feast = key)
    IN  [i \in 1..Len(kept) |-> kept[Len(kept) + 1 - i]]

FeastsChants(chants_in_folio, key) ==
    SelectSeq(chants_in_folio, LAMBDA chant : chant.feast = key)

\* Feast.objects.filter(id__in=feasts_chants.keys())
FeastObjects_All(keys) == DOMAIN Feasts

FeastObjects(keys) == DOMAIN Feasts \cap keys

\* lines 151-153
Out_NoneFirst(feast_groups, none_group) == <<none_group>> \o feast_groups

Out(feast_groups, none_group) == feast_groups \o <<none_group>>

\* the lists get_chants_with_feasts may return: the Feast query carries no
\* ORDER BY, so its rows come in any order
get_chants_with_feasts(chants_in_folio) ==
    LET keys == {chants_in_folio[i].feast : i \in 1..Len(chants_in_folio)}
    IN  { Out([i \in 1..Len(feast_objects) |->
                  [feast |-> feast_objects[i],
                   chants |-> FeastsChants(chants_in_folio, feast_objects[i])]],
              [feast |-> NoId, chants |-> FeastsChants(chants_in_folio, NoId)]) :
          feast_objects \in Orderings(FeastObjects(keys)) }

\* main_app.permissions.user_can_view_chant
user_can_view_chant(is_authenticated, chant) ==
    chant.source = NoId \/ Sources[chant.source].published \/ is_authenticated

\* values_list("folio", flat=True).distinct().order_by("folio")
Folios(chants_in_source) ==
    LET labels == {c.folio : c \in chants_in_source}
    IN  [i \in 1..Cardinality(labels) |->
            CHOOSE f \in labels :
                Cardinality({g \in labels : KeyLess(TextKey(g), TextKey(f))}) = i - 1]

IndexOf(folio_list, folio) == CHOOSE i \in 1..Len(folio_list) : folio_list[i] = folio

\* the context of a chant that has no source, lines 226-227
ContextWithoutSource(pk) ==
    [status |-> "200", pk |-> pk, previous_folio |-> None, next_folio |-> None,
     chants_current_folio |-> <<>>, feasts_current_folio |-> <<>>,
     chants_previous_folio |-> <<>>, feasts_previous_folio |-> <<>>,
     chants_next_folio |-> <<>>, feasts_next_folio |-> <<>>]

Failure(status, pk) == [ContextWithoutSource(pk) EXCEPT !.status = status]

\* lines 229-268 for a chant that has a source. The values the handler binds
\* once (folio_list, index, the two folio labels, the three evaluated
\* querysets) are bound once here.
SourceNavigation(pk, chant) ==
    \E chants_in_source \in {{c \in chants : c.source = chant.source}} :
    \E folio_list \in {Folios(chants_in_source)} :
    \E index \in {IndexOf(folio_list, chant.folio)} :
    \E previous_folio \in {IF index # 1 THEN folio_list[index - 1] ELSE None},
       next_folio \in {IF index < Len(folio_list) THEN folio_list[index + 1] ELSE None} :
    \E current \in OrderByCSequence({c \in chants_in_source : c.folio = chant.folio}),
       before \in OrderByCSequence({c \in chants_in_source : c.folio = previous_folio}),
       after \in OrderByCSequence({c \in chants_in_source : c.folio = next_folio}) :
    \E feasts_current \in get_chants_with_feasts(current),
       feasts_previous \in get_chants_with_feasts(before),
       feasts_next \in get_chants_with_feasts(after) :
       context' =
         [status |-> "200", pk |-> pk,
          previous_folio |-> previous_folio,
          next_folio |-> next_folio,
          chants_current_folio |-> current,
          feasts_current_folio |-> feasts_current,
          chants_previous_folio |-> IF Truthy(previous_folio) THEN before ELSE <<>>,
          feasts_previous_folio |-> IF Truthy(previous_folio) THEN feasts_previous ELSE <<>>,
          chants_next_folio |-> IF Truthy(next_folio) THEN after ELSE <<>>,
          feasts_next_folio |-> IF Truthy(next_folio) THEN feasts_next ELSE <<>>]

\* DetailView.get: get_object, then get_context_data (lines 194-270). A key
\* the handler does not set is kept as the empty list.
ChantDetailView_get(pk, is_authenticated) ==
    IF \A c \in chants : c.id # pk
    THEN context' = Failure("404", pk)
    ELSE \E chant \in {c \in chants : c.id = pk} :
            IF ~user_can_view_chant(is_authenticated, chant)
            THEN context' = Failure("403", pk)
            ELSE IF chant.source = NoId
            THEN context' = ContextWithoutSource(pk)
            ELSE SourceNavigation(pk, chant)

ChantDetailView_get_context_data ==
    /\ pc = "idle"
    /\ pc' = "done"
    /\ \E pk \in 1..(MaxDetailChants + 1), is_authenticated \in BOOLEAN :
          ChantDetailView_get(pk, is_authenticated)
    /\ UNCHANGED <<chants, sequences, request, object_list, response, previous, callers>>

\* the page is rendered; the next request starts from the same store
ChantDetailView_render ==
    /\ pc = "done"
    /\ pc' = "idle"
    /\ context' = NoContext
    /\ UNCHANGED <<chants, sequences, request, object_list, response, previous, callers>>

\* what varies from chant to chant in the stores the detail page is asked over
DetailCells ==
    [folio : {<<"0", "0", "1", "r">>, <<"0", "0", "2", "r">>},
     c_sequence : {1, 2}, feast : {NoId, 1, 2}]

\* chants 1..n of one source; the first chant may have no source
DetailStore(cells, source, first_source) ==
    { [BaseRecord("chant") EXCEPT
          !.id = i, !.source = IF i = 1 THEN first_source ELSE source,
          !.folio = cells[i].folio, !.c_sequence = cells[i].c_sequence,
          !.feast = cells[i].feast] : i \in DOMAIN cells }

InitDetail ==
    /\ \E n \in 1..MaxDetailChants :
          \E cells \in [1..n -> DetailCells],
             sources \in {<<1, 1>>, <<2, 2>>, <<1, NoId>>} :
             \* the chants of an unpublished source, and those stored beside a
             \* chant without source, are all alike
             /\ sources = <<1, 1>> \/ \A i \in 1..n : cells[i] = cells[1]
             \* ids are given in the order of c_sequence
             /\ \A i, j \in 1..n : i < j => cells[i].c_sequence <= cells[j].c_sequence
             /\ chants = DetailStore(cells, sources[1], sources[2])
    /\ sequences = {}
    /\ request = NoRequest
    /\ pc = "idle"
    /\ object_list = EmptyQuerySet
    /\ response = NoResponse
    /\ previous = NoPrevious
    /\ callers = NoCallers
    /\ context = NoContext

NextDetail ==
    \/ ChantDetailView_get_context_data
    \/ ChantDetailView_render

SpecDetail == InitDetail /\ [][NextDetail]_vars

\* the calls of get_chants_with_feasts made for the page: the list passed in
\* and the list returned
Applications ==
    IF context.status # "200" THEN {}
    ELSE {a \in {[input |-> context.chants_current_folio,
                  output |-> context.feasts_current_folio],
                 [input |-> context.chants_previous_folio,
                  output |-> context.feasts_previous_folio],
                 [input |-> context.chants_next_folio,
                  output |-> context.feasts_next_folio]} : a.output # <<>>}

\* the feasts of the chants passed in, NoId standing for no feast
FeastKeys(input) == {input[i].feast : i \in 1..Len(input)}

GroupsKeyed(output, key) == {g \in 1..Len(output) : output[g].feast = key}

ChantsOf(group) == {group.chants[k] : k \in 1..Len(group.chants)}

\* C8 as stated: one group per distinct feast (or absence of feast) among the
\* chants passed in, and no other group.
C8_OneGroupPerFeastAndNoOther ==
    \A a \in Applications :
        /\ \A key \in FeastKeys(a.input) : Cardinality(GroupsKeyed(a.output, key)) = 1
        /\ Len(a.output) = Cardinality(FeastKeys(a.input))

\* C8: get_chants_with_feasts returns one group per distinct feast among the
\* chants passed in, holding the chants of that feast, and besides these
\* exactly one group keyed None, which is empty when every chant has a feast.
C8_OneGroupPerFeastAndNoneGroup ==
    \A a \in Applications :
        /\ \A key \in FeastKeys(a.input) \ {NoId} :
              /\ Cardinality(GroupsKeyed(a.output, key)) = 1
              /\ \A g \in GroupsKeyed(a.output, key) :
                    ChantsOf(a.output[g]) =
                        {a.input[i] : i \in {i \in 1..Len(a.input) : a.input[i].feast = key}}
        /\ Cardinality(GroupsKeyed(a.output, NoId)) = 1
        /\ Len(a.output) = Cardinality(FeastKeys(a.input) \ {NoId}) + 1

\* the folio of the chant shown holds one chant of feast 1 and one of feast 2,
\* and three groups come back, the one keyed None empty
C8_Witness ==
    /\ context.status = "200"
    /\ Len(context.chants_current_folio) = 2
    /\ FeastKeys(context.chants_current_folio) = {1, 2}
    /\ Len(context.feasts_current_folio) = 3
    /\ context.feasts_current_folio[3] = [feast |-> NoId, chants |-> <<>>]

\* C9: every chant passed in appears at exactly one place of the output, in
\* the group keyed by its feast (None when it has none), and the chants of a
\* group come in the order they had in the input.
C9_EachChantOnceInInputOrder ==
    \A a \in Applications :
        /\ \A i \in 1..Len(a.input) :
              /\ Cardinality({place \in {<<g, k>> : g \in 1..Len(a.output),
                                                    k \in 1..Len(a.input)} :
                                 /\ place[2] <= Len(a.output[place[1]].chants)
                                 /\ a.output[place[1]].chants[place[2]] = a.input[i]}) = 1
              /\ \E g \in GroupsKeyed(a.output, a.input[i].feast) :
                    a.input[i] \in ChantsOf(a.output[g])
        /\ \A g \in 1..Len(a.output) :
              \A k, l \in 1..Len(a.output[g].chants) :
                 k < l => \E i, j \in 1..Len(a.input) :
                             /\ i < j
                             /\ a.input[i] = a.output[g].chants[k]
                             /\ a.input[j] = a.output[g].chants[l]

\* three chants of one folio were passed in, the first and the last of one
\* feast and the middle one of another
C9_Witness ==
    /\ context.status = "200"
    /\ Len(context.chants_current_folio) = 3
    /\ context.chants_current_folio[1].feast = context.chants_current_folio[3].feast
    /\ context.chants_current_folio[1].feast # context.chants_current_folio[2].feast
    /\ \E g \in 1..Len(context.feasts_current_folio) :
          Len(context.feasts_current_folio[g].chants) = 2

\* C10: the last group of the output is keyed None and holds exactly the
\* chants without a feast; every group before it is keyed by a Feast.
C10_NoFeastGroupLast ==
    \A a \in Applications :
        /\ a.output[Len(a.output)].feast = NoId
        /\ ChantsOf(a.output[Len(a.output)]) =
              {a.input[i] : i \in {i \in 1..Len(a.input) : a.input[i].feast = NoId}}
        /\ \A g \in 1..(Len(a.output) - 1) : a.output[g].feast # NoId

\* a chant without a feast came first in the input, before chants of two
\* feasts, and its group is the third of the output
C10_Witness ==
    /\ context.status = "200"
    /\ Len(context.chants_current_folio) = 3
    /\ context.chants_current_folio[1].feast = NoId
    /\ FeastKeys(context.chants_current_folio) = {NoId, 1, 2}
    /\ Len(context.feasts_current_folio) = 3
    /\ context.feasts_current_folio[3].chants = <<context.chants_current_folio[1]>>

(***************************************************************************)
(* get_chants_with_folios, and the page of SourceEditChantsView that       *)
(* applies it: dispatch, get_object (which runs get_queryset), then        *)
(* get_context_data                                                        *)
(***************************************************************************)
MaxEditChants == 3

\* chants_in_feast.order_by("folio"), evaluated: rows of one folio come in any
\* order, rows whose folio is NULL come last
OrderByFolio(rows) ==
    {s \in Orderings(rows) :
        \A i, j \in 1..Len(s) : i < j => ~KeyLess(TextKey(s[j].folio), TextKey(s[i].folio))}

\* folios_chants[folio] after the loop of lines 165-170
FoliosChants(ordered, folio) ==
    SelectSeq(ordered, LAMBDA chant : Truthy(chant.folio) /\ chant.folio = folio)

\* the keys of folios_chants in the order of their insertion
FolioKeys(ordered) ==
    LET firsts == {i \in 1..Len(ordered) :
                      /\ Truthy(ordered[i].folio)
                      /\ \A j \in 1..(i - 1) : ordered[j].folio # ordered[i].folio}
    IN  [k \in 1..Cardinality(firsts) |->
            ordered[CHOOSE i \in firsts : Cardinality({j \in firsts : j < i}) = k - 1].folio]

\* sorted(chants, key=lambda x: x.c_sequence) compares the keys of a list of
\* two or more; None compares with nothing
SortedRaises(list) ==
    Len(list) >= 2 /\ \E i \in 1..Len(list) : list[i].c_sequence = NullCSequence

\* sorted() is stable
SortedByCSequence(list) ==
    LET p == CHOOSE p \in Orderings(1..Len(list)) :
                \A i, j \in 1..Len(list) :
                   i < j => \/ list[p[i]].c_sequence < list[p[j]].c_sequence
                            \/ /\ list[p[i]].c_sequence = list[p[j]].c_sequence
                               /\ p[i] < p[j]
    IN  [i \in 1..Len(list) |-> list[p[i]]]

\* lines 157-176, given the rows in the order the loop of line 165 meets them
get_chants_with_folios(ordered) ==
    LET keys == FolioKeys(ordered)
    IN  IF \E k \in 1..Len(keys) : SortedRaises(FoliosChants(ordered, keys[k]))
        THEN [raised |-> "TypeError", items |-> <<>>]
        ELSE [raised |-> "none",
              items |-> [k \in 1..Len(keys) |->
                            [folio |-> keys[k],
                             chants |-> SortedByCSequence(FoliosChants(ordered, keys[k]))]]]

EditKeys == {"feast", "folio", "pk"}

EditParamValues(key) ==
    CASE key = "feast" -> {<<>>, <<"1">>, <<"a">>}
      [] key = "folio" -> {<<"0", "0", "1", "r">>, <<"0", "0", "9", "r">>}
      [] key = "pk" -> {<<"1">>, <<"2">>, <<"9">>}

EditGETs ==
    UNION { {g \in [K -> UNION {EditParamValues(k) : k \in K}] :
                \A k \in K : g[k] \in EditParamValues(k)} : K \in SUBSET EditKeys }

\* who asks: nobody logged in, a user who may not edit the chants of the
\* source, a user who may
EditUsers == {"anonymous", "reader", "editor"}

\* main_app.permissions.user_can_edit_chants_in_source
user_can_edit_chants_in_source(user, source_id) == user \in {"editor", "proofreader"}

\* lines 988-1033
SourceEditChantsView_get_queryset(GET, source_id) ==
    LET in_source == OfSource(chants, source_id)
        feast_id == Get(GET, "feast")
        folio == Get(GET, "folio")
    IN  IF in_source = {} THEN [status |-> "ok", rows |-> {}]
        ELSE IF Truthy(feast_id)
        THEN IF ~IsIntLiteral(feast_id) THEN [status |-> "ValueError", rows |-> {}]
             ELSE [status |-> "ok",
                   rows |-> {c \in in_source : c.feast # NoId /\ c.feast = IntValue(feast_id)}]
        ELSE IF Truthy(folio)
        THEN [status |-> "ok", rows |-> {c \in in_source : c.folio = folio}]
        ELSE [status |-> "ok", rows |-> {c \in in_source : c.folio = Folios(in_source)[1]}]

\* lines 1035-1054: the outcomes of get_object over the rows of get_queryset;
\* date_created is not among the columns kept, so latest("date_created") is
\* any of the rows
SourceEditChantsView_get_object(GET, rows) ==
    LET pk == Get(GET, "pk")
    IN  IF rows = {} THEN {[status |-> "ok", found |-> FALSE, pk |-> NoId]}
        ELSE IF ~Truthy(pk) THEN {[status |-> "ok", found |-> TRUE, pk |-> r.id] : r \in rows}
        ELSE IF ~IsIntLiteral(pk) THEN {[status |-> "ValueError", found |-> FALSE, pk |-> NoId]}
        ELSE IF \E r \in rows : r.id = IntValue(pk)
        THEN {[status |-> "ok", found |-> TRUE, pk |-> IntValue(pk)]}
        ELSE {[status |-> "DoesNotExist", found |-> FALSE, pk |-> NoId]}

\* what the page holds when nothing was grouped
EditContext(GET, status, raised) ==
    [status |-> status, raised |-> raised, GET |-> GET,
     chants_in_feast |-> <<>>, folios_called |-> FALSE, folios_current_feast |-> <<>>,
     previous_folio |-> None, next_folio |-> None,
     chants_current_folio |-> <<>>, feasts_current_folio |-> <<>>]

\* lines 1127-1159: the chant is fetched again and its volpiano read
EditOutcome(page_context, object) ==
    IF object.found THEN page_context
    ELSE [page_context EXCEPT !.status = "500", !.raised = "AttributeError"]

\* lines 1056-1118
SourceEditChantsView_get_context_data(GET, source_id, rows, object) ==
    \E chants_in_source \in {OfSource(chants, source_id)} :
       IF chants_in_source = {}
       THEN context' = EditContext(GET, "200", "none")
       ELSE IF Truthy(Get(GET, "feast"))
       THEN \E chants_in_feast \in OrderByFolio(rows) :
            \E out \in {get_chants_with_folios(chants_in_feast)} :
               context' =
                 IF out.raised # "none"
                 THEN [EditContext(GET, "500", out.raised) EXCEPT
                          !.chants_in_feast = chants_in_feast, !.folios_called = TRUE]
                 ELSE EditOutcome([EditContext(GET, "200", "none") EXCEPT
                                      !.chants_in_feast = chants_in_feast,
                                      !.folios_called = TRUE,
                                      !.folios_current_feast = out.items], object)
       ELSE \E folios \in {Folios(chants_in_source)} :
            \E folio \in {IF Truthy(Get(GET, "folio")) THEN Get(GET, "folio") ELSE folios[1]} :
               IF \A i \in 1..Len(folios) : folios[i] # folio
               THEN context' = EditContext(GET, "404", "Http404")
               ELSE \E index \in {IndexOf(folios, folio)} :
                    \E current \in OrderByCSequence(rows) :
                    \E feasts_current \in get_chants_with_feasts(current) :
                       context' =
                         EditOutcome([EditContext(GET, "200", "none") EXCEPT
                            !.previous_folio = IF index # 1 THEN folios[index - 1] ELSE None,
                            !.next_folio = IF index < Len(folios)
                                           THEN folios[index + 1] ELSE None,
                            !.chants_current_folio = current,
                            !.feasts_current_folio = feasts_current], object)

\* LoginRequiredMixin and test_func (lines 981-986), then UpdateView.get
SourceEditChantsView_get ==
    /\ pc = "idle"
    /\ pc' = "done"
    /\ \E GET \in EditGETs, user \in EditUsers, source_id \in {1, 4} :
          IF user = "anonymous" THEN context' = EditContext(GET, "302", "none")
          ELSE IF source_id \notin DOMAIN Sources
          THEN context' = EditContext(GET, "404", "Http404")
          ELSE IF ~user_can_edit_chants_in_source(user, source_id)
          THEN context' = EditContext(GET, "403", "PermissionDenied")
          ELSE \E qs \in {SourceEditChantsView_get_queryset(GET, source_id)} :
                  IF qs.status # "ok" THEN context' = EditContext(GET, "500", qs.status)
                  ELSE \E object \in SourceEditChantsView_get_object(GET, qs.rows) :
                          IF object.status # "ok"
                          THEN context' = EditContext(GET, "500", object.status)
                          ELSE SourceEditChantsView_get_context_data(GET, source_id,
                                                                     qs.rows, object)
    /\ UNCHANGED <<chants, sequences, request, object_list, response, previous, callers>>

\* the page is rendered; the next request starts from the same store
SourceEditChantsView_render ==
    /\ pc = "done"
    /\ pc' = "idle"
    /\ context' = NoContext
    /\ UNCHANGED <<chants, sequences, request, object_list, response, previous, callers>>

\* what varies from chant to chant in the stores the edit page is asked over
EditCells ==
    [folio : {<<"0", "0", "1", "r">>, <<"0", "0", "2", "r">>, None},
     c_sequence : {1, 2, NullCSequence}, feast : {NoId, 1}]

\* how many chants of a store come before chant i in a fixed enumeration of
\* the cells: the stores list their chants along it
CellRank(cell) ==
    (CASE cell.folio = None -> 0 [] cell.folio = <<"0", "0", "1", "r">> -> 1 [] OTHER -> 2) * 6
    + (IF cell.c_sequence = NullCSequence THEN 0 ELSE cell.c_sequence) * 2
    + (IF cell.feast = NoId THEN 0 ELSE 1)

\* up to MaxEditChants chants of source 1, with ids 1..n
InitEdit ==
    /\ \E n \in 0..MaxEditChants :
          \E cells \in [1..n -> EditCells] :
             /\ \A i, j \in 1..n : i < j => CellRank(cells[i]) <= CellRank(cells[j])
             /\ chants = DetailStore(cells, 1, 1)
    /\ sequences = {}
    /\ request = NoRequest
    /\ pc = "idle"
    /\ object_list = EmptyQuerySet
    /\ response = NoResponse
    /\ previous = NoPrevious
    /\ callers = NoCallers
    /\ context = NoContext

NextEdit ==
    \/ SourceEditChantsView_get
    \/ SourceEditChantsView_render

SpecEdit == InitEdit /\ [][NextEdit]_vars

\* the positions of the input chants that have the folio
WithFolio(input, folio) == {i \in 1..Len(input) : input[i].folio = folio}

\* C11: get_chants_with_folios returns, without raising, one entry per
\* distinct folio among the input chants that have a folio; the chants of an
\* entry are exactly the input chants of its folio, in ascending c_sequence;
\* a chant without folio is in no entry.
C11_OneEntryPerFolioSortedByCSequence ==
    (context.status # "none" /\ context.folios_called) =>
        LET input == context.chants_in_feast
            output == context.folios_current_feast
            labels == {input[i].folio : i \in {i \in 1..Len(input) : Truthy(input[i].folio)}}
        IN  /\ context.raised # "TypeError"
            /\ Len(output) = Cardinality(labels)
            /\ \A folio \in labels :
                  \E k \in 1..Len(output) :
                     /\ output[k].folio = folio
                     /\ {output[k].chants[m] : m \in 1..Len(output[k].chants)} =
                           {input[i] : i \in WithFolio(input, folio)}
                     /\ Len(output[k].chants) = Cardinality(WithFolio(input, folio))
                     /\ \A m, l \in 1..Len(output[k].chants) :
                           m < l => output[k].chants[m].c_sequence
                                       <= output[k].chants[l].c_sequence

(***************************************************************************)
(* The keyword search of the two views, over rows with the texts of the    *)
(* documented scenario                                                     *)
(***************************************************************************)
AlleluiaDulce ==
    <<"A", "l", "l", "e", "l", "u", "i", "a", " ", "d", "u", "l", "c", "e">>
CantateAlleluia ==
    <<"C", "a", "n", "t", "a", "t", "e", " ", "a", "l", "l", "e", "l", "u", "i", "a">>
S_alleluia == <<"a", "l", "l", "e", "l", "u", "i", "a">>
S_ALLELUIA == <<"A", "L", "L", "E", "L", "U", "I", "A">>

\* the three text columns of a row
TextCells ==
    [manuscript_full_text_std_spelling : {AlleluiaDulce, CantateAlleluia, None},
     manuscript_full_text : {AlleluiaDulce, CantateAlleluia, None},
     incipit : {AlleluiaDulce, CantateAlleluia, None}]

\* a row of source 1 (chants) or of source 3 (sequences) with the given texts
TextRow(kind, id, cell) ==
    [BaseRecord(kind) EXCEPT
        !.id = id,
        !.source = IF kind = "chant" THEN 1 ELSE 3,
        !.siglum = IF kind = "chant" THEN <<"a">> ELSE <<"b">>,
        !.manuscript_full_text_std_spelling = cell.manuscript_full_text_std_spelling,
        !.manuscript_full_text = cell.manuscript_full_text,
        !.incipit = cell.incipit]

\* the rows of the scenario: one begins with the keyword in its incipit, the
\* other holds it in every text, never at the beginning
ScenarioCells ==
    <<[manuscript_full_text_std_spelling |-> CantateAlleluia,
       manuscript_full_text |-> CantateAlleluia, incipit |-> AlleluiaDulce],
      [manuscript_full_text_std_spelling |-> CantateAlleluia,
       manuscript_full_text |-> CantateAlleluia, incipit |-> CantateAlleluia]>>

\* the rows of one table: one row of any texts, or the two rows of the scenario
TextTables(kind) ==
    {{TextRow(kind, 1, cell)} : cell \in TextCells}
    \cup {{TextRow(kind, 1, ScenarioCells[1]), TextRow(kind, 2, ScenarioCells[2])}}

\* keyword and op as the form sends them, or left out, beside a genre
KeywordGETs ==
    {g \in UNION {[K -> {<<>>, <<"1">>, S_alleluia, S_ALLELUIA, S_contains, S_starts_with}] :
                     K \in SUBSET {"genre", "keyword", "op"}} :
        /\ "genre" \in DOMAIN g => g["genre"] = <<"1">>
        /\ "keyword" \in DOMAIN g => g["keyword"] \in {<<>>, S_alleluia, S_ALLELUIA}
        /\ "op" \in DOMAIN g => g["op"] \in {<<>>, S_contains, S_starts_with, S_alleluia}}

ChantSearchKeyword ==
    /\ pc = "idle"
    /\ \E GET \in KeywordGETs, is_authenticated \in BOOLEAN :
          \E qs \in {ChantSearchView_get_queryset(GET, is_authenticated)} :
              /\ request' = [view |-> "ChantSearchView", GET |-> GET,
                             is_authenticated |-> is_authenticated, source_pk |-> NoId]
              /\ object_list' = qs
              /\ pc' = IF qs.status = "ok" THEN "get_context_data" ELSE "done"
              /\ response' = IF qs.status = "ok" THEN response ELSE ServerError
    /\ UNCHANGED <<chants, sequences, previous, callers, context>>

ChantSearchMSKeyword ==
    /\ pc = "idle"
    /\ \E GET \in KeywordGETs, is_authenticated \in BOOLEAN, source_pk \in {1, 3} :
          \E qs \in {ChantSearchMSView_get_queryset(GET, source_pk)} :
              /\ request' = [view |-> "ChantSearchMSView", GET |-> GET,
                             is_authenticated |-> is_authenticated, source_pk |-> source_pk]
              /\ object_list' = qs
              /\ pc' = IF qs.status = "ok" THEN "get_context_data" ELSE "done"
              /\ response' = IF qs.status = "ok" THEN response ELSE ServerError
    /\ UNCHANGED <<chants, sequences, previous, callers, context>>

InitKeyword ==
    /\ \E table \in TextTables("chant") \cup TextTables("sequence") :
          /\ chants = {r \in table : r.kind = "chant"}
          /\ sequences = {r \in table : r.kind = "sequence"}
    /\ request = NoRequest
    /\ pc = "idle"
    /\ object_list = EmptyQuerySet
    /\ response = NoResponse
    /\ previous = NoPrevious
    /\ callers = NoCallers
    /\ context = NoContext

NextKeyword ==
    \/ ChantSearchKeyword
    \/ ChantSearchMSKeyword
    \/ ChantSearchView_get_context_data
    \/ ChantSearchMSView_get_context_data
    \/ Return

SpecKeyword == InitKeyword /\ [][NextKeyword]_vars

\* term is found in text at some place (anywhere) or at its beginning, letter
\* case apart
Occurs(text, term, anywhere) ==
    /\ text # None
    /\ \E before \in 0..Len(text) :
          /\ anywhere \/ before = 0
          /\ before + Len(term) <= Len(text)
          /\ \A j \in 1..Len(term) : Lower(text[before + j]) = Lower(term[j])

\* at least one of the three texts of the row matches the keyword
KeywordMatches(r, keyword, op) ==
    \E text \in {r.manuscript_full_text_std_spelling, r.manuscript_full_text, r.incipit} :
        Occurs(text, keyword, op = S_contains)

\* what the view returns for the request with its keyword blanked
WithoutKeyword ==
    LET GET == [request.GET EXCEPT !["keyword"] = <<>>]
        qs == IF request.view = "ChantSearchView"
              THEN ChantSearchView_get_queryset(GET, request.is_authenticated)
              ELSE ChantSearchMSView_get_queryset(GET, request.source_pk)
    IN  qs.chant_set \cup qs.sequence_set

MelodiesApplied ==
    request.view = "ChantSearchMSView" \/ ~Truthy(Get(request.GET, "search_bar"))

\* C13: with melodies="true" a search returns only rows whose volpiano is
\* non-empty (neither NULL nor the empty string); with melodies="false" the
\* per-source search returns only rows whose volpiano is empty.
C13_MelodiesSelectNonEmptyVolpiano ==
    (pc = "done" /\ response.status = "200" /\ MelodiesApplied) =>
        /\ Get(request.GET, "melodies") = S_true =>
              \A i \in 1..Len(response.rows) : Truthy(response.rows[i].volpiano)
        /\ (request.view = "ChantSearchMSView" /\ Get(request.GET, "melodies") = S_false) =>
              \A i \in 1..Len(response.rows) : ~Truthy(response.rows[i].volpiano)

\* the rows of a table the search bar term selects for the caller
SearchBarMatching(rows, term, is_authenticated) ==
    {r \in rows :
        /\ is_authenticated \/ SourcePublished(r)
        /\ IF \E i \in 1..Len(term) : IsDigit(term[i])
           THEN IContains(r.cantus_id, term)
           ELSE \/ IStartsWith(r.manuscript_full_text, term)
                \/ IStartsWith(r.manuscript_full_text_std_spelling, term)
                \/ IStartsWith(r.incipit, term)}

\* the visible rows of a table that match the request
MatchingVisible(rows) ==
    IF Truthy(Get(request.GET, "search_bar"))
    THEN SearchBarMatching(rows, request.GET["search_bar"], request.is_authenticated)
    ELSE Matching(rows, request.GET, request.is_authenticated)

\* a chant and a sequence that agree on every column
AgreeOnEveryField(c, q) == [q EXCEPT !.kind = c.kind] = c

\* C14: ChantSearchView applies the same predicate to the chants and to the
\* sequences and returns both results together, nothing removed: for a
\* request with parameters the number of rows returned is the number of
\* matching visible chants plus the number of matching visible sequences, also
\* when a chant and a sequence agree on every projected field.
C14_UnionKeepsEveryMatchingRow ==
    (/\ pc = "done"
     /\ request.view = "ChantSearchView"
     /\ DOMAIN request.GET # {}
     /\ response.status = "200") =>
        /\ Len(response.rows) =
              Cardinality(MatchingVisible(chants)) + Cardinality(MatchingVisible(sequences))
        /\ \A c \in chants, q \in sequences :
              AgreeOnEveryField(c, q) =>
                 ((\E i \in 1..Len(response.rows) : response.rows[i] = c)
                     <=> (\E i \in 1..Len(response.rows) : response.rows[i] = q))

\* a chant and a sequence that agree on every field are both returned
C14_Witness ==
    /\ pc = "done"
    /\ request.view = "ChantSearchView"
    /\ response.status = "200"
    /\ \E c \in chants, q \in sequences : AgreeOnEveryField(c, q)
    /\ Len(response.rows) = 2

(***************************************************************************)
(* The ordering of the two search views, over stores of two or three rows  *)
(* of which one differs from the others in one column                      *)
(***************************************************************************)
\* the columns a search can be ordered by, and the source, which gives the
\* siglum
OrderColumns ==
    {"incipit", "service", "genre", "cantus_id", "mode", "manuscript_full_text",
     "volpiano", "image_link", "feast", "source", "none"}

\* a row of the given table and id that differs from the others in one column
\* (in none for "none")
OrderRow(kind, id, column) ==
    LET base == [BaseRecord(kind) EXCEPT !.id = id]
    IN  CASE column = "incipit" -> [base EXCEPT !.incipit = <<"b">>]
          [] column = "service" -> [base EXCEPT !.service = 2]
          [] column = "genre" -> [base EXCEPT !.genre = 2]
          [] column = "cantus_id" -> [base EXCEPT !.cantus_id = <<"b">>]
          [] column = "mode" -> [base EXCEPT !.mode = <<"2">>]
          [] column = "manuscript_full_text" ->
                [base EXCEPT !.manuscript_full_text = <<"b", "b">>]
          [] column = "volpiano" -> [base EXCEPT !.volpiano = <<"2">>]
          [] column = "image_link" -> [base EXCEPT !.image_link = <<"a">>]
          [] column = "feast" -> [base EXCEPT !.feast = 2]
          [] column = "source" -> [base EXCEPT !.source = 3, !.siglum = <<"b">>]
          [] OTHER -> base

\* <<table and id of the row that differs, table and id of the second row>>:
\* two rows of one table, or one of each, with the same id or not
OrderPlacements ==
    {<<"chant", 1, "chant", 2>>, <<"sequence", 1, "sequence", 2>>,
     <<"chant", 1, "sequence", 1>>, <<"chant", 1, "sequence", 2>>,
     <<"sequence", 1, "chant", 1>>, <<"sequence", 1, "chant", 2>>}

\* the values of order: the names the views know, a name they do not know
S_unknown == <<"f", "o", "l", "i", "o">>
S_DESC == <<"D", "E", "S", "C">>

OrderValues ==
    {S_incipit, S_service, S_genre, S_cantus_id, S_mode, S_has_fulltext, S_has_melody,
     S_has_image, S_feast, S_siglum, S_unknown}

SortValues == {<<>>, S_desc, S_asc, S_DESC}

\* order and sort, each given or not, beside a feast field left empty
OrderGETs ==
    {g \in UNION {[K -> OrderValues \cup SortValues] : K \in SUBSET {"order", "sort", "feast"}} :
        /\ DOMAIN g # {}
        /\ "order" \in DOMAIN g => g["order"] \in OrderValues \cup {<<>>}
        /\ "sort" \in DOMAIN g => g["sort"] \in SortValues
        /\ "feast" \in DOMAIN g => g["feast"] = <<>>}

ChantSearchOrdered ==
    /\ pc = "idle"
    /\ \E GET \in OrderGETs :
          \E qs \in {ChantSearchView_get_queryset(GET, FALSE)} :
              /\ request' = [view |-> "ChantSearchView", GET |-> GET,
                             is_authenticated |-> FALSE, source_pk |-> NoId]
              /\ object_list' = qs
              /\ pc' = IF qs.status = "ok" THEN "get_context_data" ELSE "done"
              /\ response' = IF qs.status = "ok" THEN response ELSE ServerError
    /\ UNCHANGED <<chants, sequences, previous, callers, context>>

ChantSearchMSOrdered ==
    /\ pc = "idle"
    /\ \E GET \in OrderGETs, source_pk \in {1, 3} :
          \E qs \in {ChantSearchMSView_get_queryset(GET, source_pk)} :
              /\ request' = [view |-> "ChantSearchMSView", GET |-> GET,
                             is_authenticated |-> FALSE, source_pk |-> source_pk]
              /\ object_list' = qs
              /\ pc' = IF qs.status = "ok" THEN "get_context_data" ELSE "done"
              /\ response' = IF qs.status = "ok" THEN response ELSE ServerError
    /\ UNCHANGED <<chants, sequences, previous, callers, context>>

InitOrder ==
    /\ \E column \in OrderColumns, placement \in OrderPlacements, third \in BOOLEAN :
          \E table \in {{OrderRow(placement[1], placement[2], column),
                         OrderRow(placement[3], placement[4], "none")}
                        \cup (IF third THEN {OrderRow("chant", 3, "none")} ELSE {})} :
             /\ chants = {r \in table : r.kind = "chant"}
             /\ sequences = {r \in table : r.kind = "sequence"}
    /\ request = NoRequest
    /\ pc = "idle"
    /\ object_list = EmptyQuerySet
    /\ response = NoResponse
    /\ previous = NoPrevious
    /\ callers = NoCallers
    /\ context = NoContext

NextOrder ==
    \/ ChantSearchOrdered
    \/ ChantSearchMSOrdered
    \/ ChantSearchView_get_context_data
    \/ ChantSearchMSView_get_context_data
    \/ Return

SpecOrder == InitOrder /\ [][NextOrder]_vars

\* the column the claim gives for a value of order in ChantSearchView
ClaimedOrderField(order) ==
    CASE order = S_incipit -> "incipit"
      [] order = S_service -> "service"
      [] order = S_genre -> "genre"
      [] order = S_cantus_id -> "cantus_id"
      [] order = S_mode -> "mode"
      [] order = S_has_fulltext -> "manuscript_full_text"
      [] order = S_has_melody -> "volpiano"
      [] order = S_has_image -> "image_link"
      [] OTHER -> "source__holding_institution__siglum"

\* the rows come by the column, ascending or descending, and rows equal in it
\* by ascending id
OrderedBy(rows, field, desc) ==
    \A i, j \in 1..Len(rows) :
       i < j =>
          LET x == OrderKey(rows[i], field)
              y == OrderKey(rows[j], field)
          IN  IF x = y THEN rows[i].id <= rows[j].id
              ELSE IF desc THEN KeyLess(y, x) ELSE KeyLess(x, y)

\* C15: in ChantSearchView the column the result is ordered by is a function
\* of order: incipit, service, genre, cantus_id and mode name themselves,
\* has_fulltext names manuscript_full_text, has_melody volpiano, has_image
\* image_link, any other or absent value the siglum of the holding
\* institution; the id is the second key, and there is no third: rows equal
\* in the column and in id come in either order.
C15_OrderFieldFromOrderParameter ==
    (request.view = "ChantSearchView" /\ object_list.status = "ok"
        /\ pc \in {"get_context_data", "done"}) =>
       LET field == ClaimedOrderField(Get(request.GET, "order"))
       IN  /\ object_list.order = field
           /\ \A rows \in Evaluations(object_list) :
                 OrderedBy(rows, field, Get(request.GET, "sort") = S_desc)
           /\ \A a, b \in object_list.chant_set \cup object_list.sequence_set :
                 (a # b /\ a.id = b.id /\ OrderKey(a, field) = OrderKey(b, field)) =>
                    \E rows \in Evaluations(object_list) :
                       \E i, j \in 1..Len(rows) : i < j /\ rows[i] = a /\ rows[j] = b
           /\ (pc = "done" /\ response.status = "200") =>
                 OrderedBy(response.rows, field, Get(request.GET, "sort") = S_desc)

\* order=has_fulltext over two rows that differ in manuscript_full_text only,
\* the one with the greater text having the smaller id: it comes second
C15_Witness ==
    /\ pc = "done"
    /\ request.view = "ChantSearchView"
    /\ response.status = "200"
    /\ Get(request.GET, "order") = S_has_fulltext
    /\ Get(request.GET, "sort") # S_desc
    /\ Len(response.rows) = 2
    /\ response.rows[1].id = 2
    /\ response.rows[2].id = 1
    /\ response.rows[2].manuscript_full_text = <<"b", "b">>

\* C16: in both search views the result is in ascending order of the primary
\* key unless sort is exactly "desc"; with sort="desc" only the primary key is
\* reversed: rows equal in the primary key are still in ascending order of id.
C16_DescendingReversesPrimaryKeyOnly ==
    (pc = "done" /\ response.status = "200") =>
        OrderedBy(response.rows, object_list.order, Get(request.GET, "sort") = S_desc)

\* sort=desc: a row with a greater primary key comes first, and the two rows
\* equal in the primary key follow in ascending order of id
C16_Witness ==
    /\ pc = "done"
    /\ response.status = "200"
    /\ Get(request.GET, "sort") = S_desc
    /\ Len(response.rows) = 3
    /\ KeyLess(OrderKey(response.rows[2], object_list.order),
               OrderKey(response.rows[1], object_list.order))
    /\ OrderKey(response.rows[2], object_list.order)
          = OrderKey(response.rows[3], object_list.order)
    /\ response.rows[2].id < response.rows[3].id
    /\ response.rows[1].id < response.rows[2].id

(***************************************************************************)
(* ChantCreateView.get_suggested_feasts, and the page of ChantCreateView   *)
(* that shows its result: test_func, get_initial, get_context_data         *)
(***************************************************************************)
\* the largest number of stored chants that may end a feast
MaxEnders == 3

\* the feast of each next chant that is a chant and has a feast (lines 838-843)
NextFeasts(next_chants) ==
    LET kept == SelectSeq(next_chants, LAMBDA id :
                    id # NoId /\ \E c \in chants : c.id = id /\ c.feast # NoId)
    IN  [i \in 1..Len(kept) |-> (CHOOSE c \in chants : c.id = kept[i]).feast]

\* Counter(next_feasts).items(): each feast once, in the order of its first
\* occurrence, with the number of its occurrences
CounterItems_CountsFromZero(next_feasts) ==
    LET firsts == {i \in 1..Len(next_feasts) :
                      \A j \in 1..(i - 1) : next_feasts[j] # next_feasts[i]}
    IN  [k \in 1..Cardinality(firsts) |->
            LET i == CHOOSE i \in firsts : Cardinality({j \in firsts : j < i}) = k - 1
            IN  [feast |-> next_feasts[i],
                 count |-> Cardinality({j \in 1..Len(next_feasts) :
                                           j # i /\ next_feasts[j] = next_feasts[i]})]]

CounterItems(next_feasts) ==
    LET firsts == {i \in 1..Len(next_feasts) :
                      \A j \in 1..(i - 1) : next_feasts[j] # next_feasts[i]}
    IN  [k \in 1..Cardinality(firsts) |->
            LET i == CHOOSE i \in firsts : Cardinality({j \in firsts : j < i}) = k - 1
            IN  [feast |-> next_feasts[i],
                 count |-> Cardinality({j \in 1..Len(next_feasts) :
                                           next_feasts[j] = next_feasts[i]})]]

\* a slip for SortedByCount: reverse=True taken for a reversal of the sorted list
SortedByCount_Reversed(items) ==
    LET place(i) == Cardinality({j \in 1..Len(items) :
                        \/ items[j].count > items[i].count
                        \/ items[j].count = items[i].count /\ j > i}) + 1
    IN  [k \in 1..Len(items) |-> items[CHOOSE i \in 1..Len(items) : place(i) = k]]

\* sorted(items, key=lambda item: item[1], reverse=True): by count, the
\* greatest first; sorted() is stable, also with reverse=True
SortedByCount(items) ==
    LET place(i) == Cardinality({j \in 1..Len(items) :
                        \/ items[j].count > items[i].count
                        \/ items[j].count = items[i].count /\ j < i}) + 1
    IN  [k \in 1..Len(items) |-> items[CHOOSE i \in 1..Len(items) : place(i) = k]]

\* Chant.objects.filter(is_last_chant_in_feast=True, feast=current_feast):
\* feast=None is the test IS NULL
ChantsThatEndFeast(current_feast) ==
    {c \in chants : c.is_last_chant_in_feast /\ c.feast = current_feast}

\* lines 828-849, given the chants that end the feast in the order the query
\* returns them
get_suggested_feasts(chants_that_end_current_feast) ==
    LET next_chants == [i \in 1..Len(chants_that_end_current_feast) |->
                           chants_that_end_current_feast[i].next_chant]
    IN  SortedByCount(CounterItems(NextFeasts(next_chants)))

\* what the page holds when no feast was suggested
CreateContext(status, previous_chant) ==
    [status |-> status, previous_chant |-> previous_chant, suggested |-> FALSE,
     chants_that_end_current_feast |-> <<>>, suggested_feasts |-> <<>>]

\* LoginRequiredMixin and test_func (lines 780-785), get_initial (lines
\* 801-810: date_updated is not among the columns kept, so the latest chant of
\* the source is any of its chants), get_context_data (lines 851-864)
ChantCreateView_get ==
    /\ pc = "idle"
    /\ pc' = "done"
    /\ \E user \in EditUsers, source_pk \in {1, 2, 4} :
          IF user = "anonymous" THEN context' = CreateContext("302", NoId)
          ELSE IF source_pk \notin DOMAIN Sources
          THEN context' = CreateContext("404", NoId)
          ELSE IF ~user_can_edit_chants_in_source(user, source_pk)
          THEN context' = CreateContext("403", NoId)
          ELSE IF OfSource(chants, source_pk) = {}
          THEN context' = CreateContext("200", NoId)
          ELSE \E latest_chant \in OfSource(chants, source_pk) :
               \E ended \in Orderings(ChantsThatEndFeast(latest_chant.feast)) :
                  context' = [CreateContext("200", latest_chant.id) EXCEPT
                                 !.suggested = TRUE,
                                 !.chants_that_end_current_feast = ended,
                                 !.suggested_feasts = get_suggested_feasts(ended)]
    /\ UNCHANGED <<chants, sequences, request, object_list, response, previous, callers>>

\* the page is rendered; the next request starts from the same store
ChantCreateView_render ==
    /\ pc = "done"
    /\ pc' = "idle"
    /\ context' = NoContext
    /\ UNCHANGED <<chants, sequences, request, object_list, response, previous, callers>>

\* a chant with the two columns get_suggested_feasts reads beside the feast
LinkedChant(id, source, feast, is_last_chant_in_feast, next_chant) ==
    [is_last_chant_in_feast |-> is_last_chant_in_feast, next_chant |-> next_chant]
    @@ [BaseRecord("chant") EXCEPT !.id = id, !.source = source, !.feast = feast]

\* the chants that may follow: one of feast 1, one of feast 2, one without feast
Followers ==
    {LinkedChant(MaxEnders + 1, 1, 1, FALSE, NoId),
     LinkedChant(MaxEnders + 2, 1, 2, FALSE, NoId),
     LinkedChant(MaxEnders + 3, 1, NoId, FALSE, NoId)}

\* what varies among the chants that may end a feast: the source, the feast,
\* the chant that follows (NoId for none); one cell is not the last of its feast
EnderCells ==
    [source : {1, 2}, feast : {NoId, 1, 2}, is_last_chant_in_feast : {TRUE},
     next_chant : {NoId, MaxEnders + 1, MaxEnders + 2, MaxEnders + 3}]
    \cup [source : {1, 2}, feast : {1}, is_last_chant_in_feast : {FALSE},
          next_chant : {MaxEnders + 2}]

\* a fixed enumeration of the cells: the stores list their chants along it
EnderRank(cell) ==
    (cell.source - 1) * 32 + cell.feast * 8
    + (IF cell.next_chant = NoId THEN 0 ELSE cell.next_chant - MaxEnders) * 2
    + (IF cell.is_last_chant_in_feast THEN 1 ELSE 0)

InitSuggest ==
    /\ \E n \in 0..MaxEnders :
          \E cells \in [1..n -> EnderCells] :
             /\ \A i, j \in 1..n : i < j => EnderRank(cells[i]) <= EnderRank(cells[j])
             /\ chants = Followers \cup
                   {LinkedChant(i, cells[i].source, cells[i].feast,
                                cells[i].is_last_chant_in_feast, cells[i].next_chant) :
                       i \in 1..n}
    /\ sequences = {}
    /\ request = NoRequest
    /\ pc = "idle"
    /\ object_list = EmptyQuerySet
    /\ response = NoResponse
    /\ previous = NoPrevious
    /\ callers = NoCallers
    /\ context = NoContext

NextSuggest ==
    \/ ChantCreateView_get
    \/ ChantCreateView_render

SpecSuggest == InitSuggest /\ [][NextSuggest]_vars

\* the chant the page was built from
PreviousChant == CHOOSE c \in chants : c.id = context.previous_chant

\* the chants of the whole table that are the last of the feast of the
\* previous chant and are followed by a chant of feast G
EndersFollowedBy(G) ==
    {c \in chants :
        /\ c.is_last_chant_in_feast = TRUE
        /\ c.feast = PreviousChant.feast
        /\ \E next \in chants : next.id = c.next_chant /\ next.feast = G}

\* C17: the count get_suggested_feasts returns for a feast G is the number of
\* chants of the whole table that have is_last_chant_in_feast = True, the
\* feast of latest_chant, and a next_chant whose feast is G; chants without
\* next_chant, or whose next_chant has no feast, count for nothing; no feast
\* is listed with count zero, none is listed twice.
C17_CountsChantsFollowedByFeast ==
    (context.status = "200" /\ context.suggested) =>
        LET out == context.suggested_feasts
        IN  /\ \A k \in 1..Len(out) :
                  /\ out[k].feast # NoId
                  /\ out[k].count > 0
                  /\ out[k].count = Cardinality(EndersFollowedBy(out[k].feast))
            /\ \A G \in DOMAIN Feasts :
                  EndersFollowedBy(G) # {} => \E k \in 1..Len(out) : out[k].feast = G
            /\ \A k, l \in 1..Len(out) : out[k].feast = out[l].feast => k = l

\* feast 2 is suggested with count 2 although three chants end the feast of
\* the previous chant, one of another source among them: one of the three has
\* no next chant or a next chant without feast
C17_Witness ==
    /\ context.status = "200"
    /\ context.suggested
    /\ Len(context.chants_that_end_current_feast) = 3
    /\ \E i, j \in 1..3 :
          context.chants_that_end_current_feast[i].source
             # context.chants_that_end_current_feast[j].source
    /\ context.suggested_feasts = <<[feast |-> 2, count |-> 2]>>

\* where the feast is met first among the next chants, in the order the
\* chants that end the feast were read
FirstEncounter(G) ==
    LET ended == context.chants_that_end_current_feast
    IN  CHOOSE i \in 1..Len(ended) :
           /\ \E next \in chants : next.id = ended[i].next_chant /\ next.feast = G
           /\ \A j \in 1..(i - 1) :
                 ~\E next \in chants : next.id = ended[j].next_chant /\ next.feast = G

\* C18: the (feast, count) pairs are in non-increasing order of count, and of
\* two feasts with the same count the one met first among the next chants
\* comes first.
C18_ByCountThenFirstEncounter ==
    (context.status = "200" /\ context.suggested) =>
        LET out == context.suggested_feasts
        IN  \A k, l \in 1..Len(out) :
               k < l =>
                  /\ out[k].count >= out[l].count
                  /\ out[k].count = out[l].count =>
                        FirstEncounter(out[k].feast) < FirstEncounter(out[l].feast)

\* two feasts are suggested once each, feast 2 before feast 1 because the
\* chant followed by a chant of feast 2 was read first
C18_Witness ==
    /\ context.status = "200"
    /\ context.suggested
    /\ context.suggested_feasts = <<[feast |-> 2, count |-> 1], [feast |-> 1, count |-> 1]>>

(***************************************************************************)
(* The per-source search and the detail page: missing source, permission   *)
(***************************************************************************)
\* C19: a request to ChantSearchMSView whose source_pk names no Source ends
\* in not-found whatever its GET parameters, none or some.
C19_MissingSourceIsNotFound ==
    (/\ pc = "done"
     /\ request.view = "ChantSearchMSView"
     /\ request.source_pk \notin DOMAIN Sources) =>
        response.status = "404"

\* the query strings of the per-source requests whose permission is looked
\* at: none, a plain search, a genre that is no number, a page that exists or not
PermissionGETs ==
    {<<>>, [genre |-> <<"1">>], [genre |-> <<"a">>], [service |-> <<"a">>],
     [keyword |-> <<"a">>], [genre |-> <<"1">>, page |-> <<"1">>],
     [genre |-> <<"1">>, page |-> <<"2">>], [page |-> <<"2">>]}

ChantSearchMSRequest ==
    /\ pc = "idle"
    /\ \E GET \in PermissionGETs, is_authenticated \in BOOLEAN, source_pk \in {1, 2, 4} :
          \E qs \in {ChantSearchMSView_get_queryset(GET, source_pk)} :
              /\ request' = [view |-> "ChantSearchMSView", GET |-> GET,
                             is_authenticated |-> is_authenticated, source_pk |-> source_pk]
              /\ object_list' = qs
              /\ pc' = IF qs.status = "ok" THEN "get_context_data" ELSE "done"
              /\ response' = IF qs.status = "ok" THEN response ELSE ServerError
    /\ UNCHANGED <<chants, sequences, previous, callers, context>>

\* the detail page of chant pk, asked for by a caller who is logged in or not
ChantDetailRequest ==
    /\ pc = "idle"
    /\ pc' = "done"
    /\ \E pk \in 1..3, is_authenticated \in BOOLEAN :
          /\ request' = [view |-> "ChantDetailView", GET |-> <<>>,
                         is_authenticated |-> is_authenticated, source_pk |-> NoId]
          /\ ChantDetailView_get(pk, is_authenticated)
    /\ UNCHANGED <<chants, sequences, object_list, response, previous, callers>>

\* the response is sent; the next request starts from the same store
Respond ==
    /\ pc = "done"
    /\ pc' = "idle"
    /\ request' = NoRequest
    /\ object_list' = EmptyQuerySet
    /\ response' = NoResponse
    /\ context' = NoContext
    /\ UNCHANGED <<chants, sequences, previous, callers>>

\* one or two chants of the published source 1 or of the unpublished source
\* 2; the first chant may have no source
InitPermission ==
    /\ \E n \in 1..2, source \in {1, 2}, first_source \in {1, 2, NoId} :
          /\ first_source \in {source, NoId}
          /\ chants = DetailStore([i \in 1..n |->
                                      [folio |-> <<"0", "0", "1", "r">>,
                                       c_sequence |-> i, feast |-> 1]],
                                  source, first_source)
    /\ sequences = {}
    /\ request = NoRequest
    /\ pc = "idle"
    /\ object_list = EmptyQuerySet
    /\ response = NoResponse
    /\ previous = NoPrevious
    /\ callers = NoCallers
    /\ context = NoContext

NextPermission ==
    \/ ChantSearchMSRequest
    \/ ChantSearchMSView_get_context_data
    \/ ChantDetailRequest
    \/ Respond

SpecPermission == InitPermission /\ [][NextPermission]_vars

\* a per-source search of an unpublished source has been answered
UnpublishedSearchAnswered(is_authenticated) ==
    /\ pc = "done"
    /\ request.view = "ChantSearchMSView"
    /\ request.is_authenticated = is_authenticated
    /\ request.source_pk \in DOMAIN Sources
    /\ Sources[request.source_pk].published = FALSE

\* the detail page of a chant of an unpublished source has been answered
UnpublishedDetailAnswered(is_authenticated) ==
    /\ pc = "done"
    /\ request.view = "ChantDetailView"
    /\ request.is_authenticated = is_authenticated
    /\ \E c \in chants : c.id = context.pk /\ Unpublished(c)

\* the detail context holds none of the lists of the page
NoDetailContext ==
    /\ context.chants_current_folio = <<>>
    /\ context.feasts_current_folio = <<>>
    /\ context.chants_previous_folio = <<>>
    /\ context.chants_next_folio = <<>>
    /\ context.previous_folio = None
    /\ context.next_folio = None

FailsInQueryset(GET) ==
    /\ DOMAIN GET # {}
    /\ \/ Truthy(Get(GET, "genre")) /\ ~IsIntLiteral(Get(GET, "genre"))
       \/ Truthy(Get(GET, "service")) /\ ~IsIntLiteral(Get(GET, "service"))

\* the page asked for is not the first: with fewer rows than a page holds
\* there is no such page
BeyondFirstPage(GET) == Truthy(Get(GET, "page")) /\ Get(GET, "page") # <<"1">>

MalformedId ==
    /\ \/ Truthy(Get(request.GET, "service")) /\ ~IsIntLiteral(Get(request.GET, "service"))
       \/ Truthy(Get(request.GET, "genre")) /\ ~IsIntLiteral(Get(request.GET, "genre"))
    /\ request.view = "ChantSearchMSView" \/ ~Truthy(Get(request.GET, "search_bar"))

\* the answers a caller takes for a failure of the request itself
ClientErrors == {"400", "403", "404", "422"}

\* C21: a search request whose service or genre is non-empty and not a
\* well-formed integer fails with an error the caller sees as a 4xx failure,
\* and returns no rows.
C21_MalformedIdIsClientError ==
    (pc = "done" /\ request.view # "none" /\ MalformedId) =>
        /\ response.status \in ClientErrors
        /\ response.rows = <<>>

\* the position parameter takes part in the request: in the global view it
\* is read when the search bar is not used
PositionGiven ==
    /\ Truthy(Get(request.GET, "position"))
    /\ request.view = "ChantSearchMSView" \/ ~Truthy(Get(request.GET, "search_bar"))

\* C22: in the per-source search as in the global search, a non-empty position
\* parameter restricts the result to the rows whose position equals it: no row
\* with another position is returned.
C22_PositionFiltersBothViews ==
    (pc = "done" /\ response.status = "200" /\ PositionGiven) =>
        \A i \in 1..Len(response.rows) :
           response.rows[i].position = request.GET["position"]

(***************************************************************************)
(* get_feast_selector_options, applied to the chants of a source           *)
(***************************************************************************)
\* ORDER BY c_sequence places x before y: NULL sorts after every value
CSequenceLess(x, y) ==
    x # NullCSequence /\ (y = NullCSequence \/ x < y)

\* .order_by("folio", "c_sequence"), evaluated: rows equal in both columns
\* come in any order
OrderByFolioCSequence(rows) ==
    {s \in Orderings(rows) :
        \A i, j \in 1..Len(s) :
           i < j =>
              /\ ~KeyLess(TextKey(s[j].folio), TextKey(s[i].folio))
              /\ s[i].folio = s[j].folio =>
                    ~CSequenceLess(s[j].c_sequence, s[i].c_sequence)}

\* values_list("folio", "feast_id", "feast__name") of one row
FolioFeast(chant) ==
    [folio |-> chant.folio, feast_id |-> chant.feast, feast__name |-> Feasts[chant.feast].name]

\* a slip for DictFromKeys: an entry is dropped only when it repeats the one
\* just before it
DictFromKeys_Adjacent(items) ==
    LET kept == {i \in 1..Len(items) : i = 1 \/ items[i - 1] # items[i]}
    IN  [k \in 1..Cardinality(kept) |->
            items[CHOOSE i \in kept : Cardinality({j \in kept : j < i}) = k - 1]]

\* list(dict.fromkeys(items)): each item once, at the place of its first
\* occurrence
DictFromKeys(items) ==
    LET kept == {i \in 1..Len(items) : \A j \in 1..(i - 1) : items[j] # items[i]}
    IN  [k \in 1..Cardinality(kept) |->
            items[CHOOSE i \in kept : Cardinality({j \in kept : j < i}) = k - 1]]

\* source.chant_set.exclude(feast=None)
WithFeast(rows) == {c \in rows : c.feast # NoId}

\* lines 109-129, given the rows in the order the iterator yields them
get_feast_selector_options(folios_feasts_iter) ==
    DictFromKeys([i \in 1..Len(folios_feasts_iter) |-> FolioFeast(folios_feasts_iter[i])])

\* the selector is built for a source (line 1085), out of one of the orders in
\* which the query may yield the rows
FeastSelector ==
    /\ pc = "idle"
    /\ pc' = "done"
    /\ \E source_id \in {1, 2} :
       \E walk \in OrderByFolioCSequence(WithFeast(OfSource(chants, source_id))) :
          context' = [status |-> "200", source |-> source_id, walk |-> walk,
                      feasts_with_folios |-> get_feast_selector_options(walk)]
    /\ UNCHANGED <<chants, sequences, request, object_list, response, previous, callers>>

\* the options are rendered; the next call starts from the same store
FeastSelectorRendered ==
    /\ pc = "done"
    /\ pc' = "idle"
    /\ context' = NoContext
    /\ UNCHANGED <<chants, sequences, request, object_list, response, previous, callers>>

\* what varies from chant to chant in the stores the selector is built over
SelectorCells ==
    [source : {1, 2}, folio : {<<"0", "0", "1", "r">>, <<"0", "0", "2", "r">>, None},
     c_sequence : {1, 2}, feast : {NoId, 1, 2}]

\* a fixed enumeration of the cells: the stores list their chants along it
SelectorRank(cell) ==
    (cell.source - 1) * 18
    + (CASE cell.folio = None -> 0 [] cell.folio = <<"0", "0", "1", "r">> -> 1 [] OTHER -> 2) * 6
    + (cell.c_sequence - 1) * 3 + cell.feast

\* up to MaxEditChants chants with ids 1..n
InitSelector ==
    /\ \E n \in 0..MaxEditChants :
          \E cells \in [1..n -> SelectorCells] :
             /\ \A i, j \in 1..n : i < j => SelectorRank(cells[i]) <= SelectorRank(cells[j])
             /\ chants = { [BaseRecord("chant") EXCEPT
                               !.id = i, !.source = cells[i].source,
                               !.folio = cells[i].folio,
                               !.c_sequence = cells[i].c_sequence,
                               !.feast = cells[i].feast] : i \in 1..n }
    /\ sequences = {}
    /\ request = NoRequest
    /\ pc = "idle"
    /\ object_list = EmptyQuerySet
    /\ response = NoResponse
    /\ previous = NoPrevious
    /\ callers = NoCallers
    /\ context = NoContext

NextSelector ==
    \/ FeastSelector
    \/ FeastSelectorRendered

SpecSelector == InitSelector /\ [][NextSelector]_vars

\* the triple of the chant at a place of the walk
TripleAt(i) ==
    <<context.walk[i].folio, context.walk[i].feast, Feasts[context.walk[i].feast].name>>

\* the triple of an option
TripleOf(option) == <<option.folio, option.feast_id, option.feast__name>>

\* the first place of the walk where the triple occurs
FirstPlace(triple) ==
    CHOOSE i \in 1..Len(context.walk) :
       TripleAt(i) = triple /\ \A j \in 1..(i - 1) : TripleAt(j) # triple

Word(n) == [i \in 1..n |-> "a"]

\* the lengths of the words the texts are made of
WordLengths == {1, 14, 28, 29, 30}

\* the texts submitted: one to three words, one space between two words, as a
\* form field that strips its value delivers them
IncipitTexts ==
    {Word(a) : a \in WordLengths}
    \cup {Word(a) \o <<" ">> \o Word(b) : a, b \in WordLengths}
    \cup {Word(a) \o <<" ">> \o Word(b) \o <<" ">> \o Word(c) : a, b, c \in WordLengths}

\* lines 877-913 for a caller alone: the instance is completed, the existence
\* query runs, the form is saved or rendered again
ChantCreateView_form_valid ==
    /\ pc = "idle"
    /\ pc' = "done"
    /\ \E text \in IncipitTexts :
       \E instance \in {Instance([source |-> 1, folio |-> <<"0", "0", "1", "v">>,
                                  c_sequence |-> 1,
                                  manuscript_full_text_std_spelling |-> text])} :
       \E errors \in {IF Exists(chants, instance) THEN {DuplicateError} ELSE {}} :
          /\ chants' = IF IsValid(errors)
                       THEN Insert(chants, [instance EXCEPT !.id = NextId(chants)])
                       ELSE chants
          /\ context' = [status |-> IF IsValid(errors) THEN "form_valid" ELSE "form_invalid",
                         manuscript_full_text_std_spelling |-> text,
                         incipit |-> instance.incipit]
    /\ UNCHANGED <<sequences, request, object_list, response, previous, callers>>

\* the answer is sent
ChantCreateView_form_valid_return ==
    /\ pc = "done"
    /\ pc' = "idle"
    /\ context' = NoContext
    /\ UNCHANGED <<chants, sequences, request, object_list, response, previous, callers>>

InitIncipit ==
    /\ chants \in {{}, {BaseRecord("chant")}}
    /\ sequences = {}
    /\ request = NoRequest
    /\ pc = "idle"
    /\ object_list = EmptyQuerySet
    /\ response = NoResponse
    /\ previous = NoPrevious
    /\ callers = NoCallers
    /\ context = NoContext

NextIncipit ==
    \/ ChantCreateView_form_valid
    \/ ChantCreateView_form_valid_return

SpecIncipit == InitIncipit /\ [][NextIncipit]_vars

\* the prefixes of the text made of whole words: none, or up to the end of a
\* word
WholeWordPrefixes(text) ==
    {SubSeq(text, 1, n) : n \in {n \in 0..Len(text) :
        \/ n = 0
        \/ /\ text[n] # " "
           /\ n = Len(text) \/ text[n + 1] = " "}}

\* C24: the incipit computed by form_valid is a prefix of
\* manuscript_full_text_std_spelling made of whole words, at most 30
\* characters long, and the longest such: a text of 30 characters or fewer is
\* kept whole.
C24_IncipitLongestWholeWordPrefix ==
    context.status \in {"form_valid", "form_invalid"} =>
        LET text == context.manuscript_full_text_std_spelling
        IN  /\ context.incipit \in WholeWordPrefixes(text)
            /\ Len(context.incipit) <= 30
            /\ \A prefix \in WholeWordPrefixes(text) :
                  Len(prefix) <= 30 => Len(prefix) <= Len(context.incipit)

(***************************************************************************)
(* SourceEditChantsView.post: an edit of a chant is saved                  *)
(***************************************************************************)
\* the text fields a proofreader checks, each with its flag
ProofreadFlag ==
    [volpiano |-> "volpiano_proofread",
     manuscript_full_text_std_spelling |-> "manuscript_full_text_std_proofread",
     manuscript_full_text |-> "manuscript_full_text_proofread"]

TextFields == DOMAIN ProofreadFlag

\* what the edit form submits
ProofreadForms ==
    [chant_range : {<<"c">>, <<"d">>},
     volpiano : {<<"a">>, <<"b">>},
     manuscript_full_text_std_spelling : {<<"a">>, <<"b">>},
     manuscript_full_text : {<<"a">>, <<"b">>},
     volpiano_proofread : BOOLEAN,
     manuscript_full_text_std_proofread : BOOLEAN,
     manuscript_full_text_proofread : BOOLEAN,
     proofread_by : {{}, {"proofreader"}}]

FormFields == DOMAIN CHOOSE form \in ProofreadForms : TRUE

\* who saves: nobody logged in, a user who may not edit, one who may edit but
\* not proofread, one who may do both
ProofreadUsers == {"anonymous", "reader", "editor", "proofreader"}

\* main_app.permissions.user_can_proofread_chant
user_can_proofread_chant(user, chant) == user = "proofreader"

\* the query string of the edit page: no chant chosen, the stored one, one
\* that is not stored
ProofreadGETs == {<<>>} \cup {[k \in {"pk"} |-> v] : v \in {<<"1">>, <<"9">>}}

\* the model form writes the submitted values into its instance
construct_instance(form, instance) ==
    [f \in DOMAIN instance |-> IF f \in FormFields THEN form[f] ELSE instance[f]]

\* BaseForm.changed_data: the fields whose submitted value is not the initial
changed_data(form, initial) == {f \in FormFields : form[f] # initial[f]}

\* lines 1171-1179 only: the stored values are put back and no flag is reset
PreserveProofreading_NoReset(chant, original_chant, changed) ==
    [chant EXCEPT
        !.chant_range = original_chant.chant_range,
        !.volpiano_proofread = original_chant.volpiano_proofread,
        !.manuscript_full_text_std_proofread =
            original_chant.manuscript_full_text_std_proofread,
        !.manuscript_full_text_proofread = original_chant.manuscript_full_text_proofread]

\* lines 1171-1188: the instance of a user who may not proofread
PreserveProofreading(chant, original_chant, changed) ==
    [chant EXCEPT
        !.chant_range = original_chant.chant_range,
        !.volpiano_proofread =
            IF "volpiano" \in changed THEN FALSE ELSE original_chant.volpiano_proofread,
        !.manuscript_full_text_std_proofread =
            IF "manuscript_full_text_std_spelling" \in changed THEN FALSE
            ELSE original_chant.manuscript_full_text_std_proofread,
        !.manuscript_full_text_proofread =
            IF "manuscript_full_text" \in changed THEN FALSE
            ELSE original_chant.manuscript_full_text_proofread]

\* lines 1161-1198: the row the store holds once form_valid has returned;
\* ModelForm.save writes the submitted proofread_by, line 1196 writes the
\* list read at line 1180 over it
SourceEditChantsView_form_valid(user, form, chant, original_chant) ==
    IF ~user_can_proofread_chant(user, chant)
    THEN [PreserveProofreading(chant, original_chant, changed_data(form, original_chant))
             EXCEPT !.last_updated_by = user, !.proofread_by = original_chant.proofread_by]
    ELSE [chant EXCEPT !.last_updated_by = user]

\* what the answer to a save carries: the submitted values once they are saved
ProofreadContext(status, user, GET, form) ==
    [status |-> status, user |-> user, GET |-> GET,
     form |-> IF status = "saved" THEN form ELSE <<>>]

\* LoginRequiredMixin and test_func (lines 981-986), then UpdateView.post:
\* get_object, the form bound to the chant, form_valid or form_invalid
SourceEditChantsView_post ==
    /\ pc = "idle"
    /\ pc' = "done"
    /\ \E GET \in ProofreadGETs, user \in ProofreadUsers, source_id \in {1, 4} :
          IF user = "anonymous"
          THEN context' = ProofreadContext("302", user, GET, <<>>) /\ chants' = chants
          ELSE IF source_id \notin DOMAIN Sources
          THEN context' = ProofreadContext("404", user, GET, <<>>) /\ chants' = chants
          ELSE IF ~user_can_edit_chants_in_source(user, source_id)
          THEN context' = ProofreadContext("403", user, GET, <<>>) /\ chants' = chants
          ELSE \E qs \in {SourceEditChantsView_get_queryset(GET, source_id)} :
               \E object \in SourceEditChantsView_get_object(GET, qs.rows) :
                  IF qs.status # "ok" \/ object.status # "ok"
                  THEN context' = ProofreadContext("500", user, GET, <<>>) /\ chants' = chants
                  ELSE \E form \in ProofreadForms, is_valid \in BOOLEAN :
                       IF ~is_valid
                       THEN /\ context' = ProofreadContext("200", user, GET, form)
                            /\ chants' = chants
                       ELSE \E stored \in {c \in chants : c.id = object.pk} :
                            \E original \in SourceEditChantsView_get_object(GET, qs.rows) :
                            \E original_chant \in {c \in chants : c.id = original.pk} :
                               /\ chants' = (chants \ {stored}) \cup
                                     {SourceEditChantsView_form_valid(
                                         user, form, construct_instance(form, stored),
                                         original_chant)}
                               /\ context' = ProofreadContext("saved", user, GET, form)
    /\ UNCHANGED <<sequences, request, object_list, response, previous, callers>>

\* the redirect or the page is sent
SourceEditChantsView_post_return ==
    /\ pc = "done"
    /\ pc' = "idle"
    /\ context' = NoContext
    /\ UNCHANGED <<chants, sequences, request, object_list, response, previous, callers>>

\* one chant of source 1, never edited, proofread in part or not at all
InitProofread ==
    /\ \E form \in ProofreadForms :
          /\ \A f \in TextFields : form[f] = <<"a">>
          /\ chants = {[id |-> 1, source |-> 1, folio |-> <<"0", "0", "1", "r">>,
                        feast |-> NoId, last_updated_by |-> "nobody",
                        chant_range |-> form.chant_range,
                        volpiano |-> form.volpiano,
                        manuscript_full_text_std_spelling |->
                            form.manuscript_full_text_std_spelling,
                        manuscript_full_text |-> form.manuscript_full_text,
                        volpiano_proofread |-> form.volpiano_proofread,
                        manuscript_full_text_std_proofread |->
                            form.manuscript_full_text_std_proofread,
                        manuscript_full_text_proofread |->
                            form.manuscript_full_text_proofread,
                        proofread_by |-> form.proofread_by]}
    /\ sequences = {}
    /\ request = NoRequest
    /\ pc = "idle"
    /\ object_list = EmptyQuerySet
    /\ response = NoResponse
    /\ previous = NoPrevious
    /\ callers = NoCallers
    /\ context = NoContext

NextProofread ==
    \/ SourceEditChantsView_post
    \/ SourceEditChantsView_post_return

SpecProofread == InitProofread /\ [][NextProofread]_vars

\* a user who may not proofread has saved an edit in this step
SavedWithoutProofreading ==
    /\ context'.status = "saved"
    /\ ~user_can_proofread_chant(context'.user, context'.form)

\* C25: when a user who may not proofread the chant saves an edit, the stored
\* chant_range and proofread_by are the same after the save as before it, and
\* each proofread flag keeps its stored value unless its text field is among
\* the changed fields, in which case it becomes False; no flag goes from
\* False to True.
C25_NonProofreaderPreservesProofreading ==
    [][SavedWithoutProofreading =>
          \A before \in chants : \A after \in {c \in chants' : c.id = before.id} :
             /\ after.chant_range = before.chant_range
             /\ after.proofread_by = before.proofread_by
             /\ \A f \in TextFields :
                   /\ after[ProofreadFlag[f]] =
                         IF context'.form[f] # before[f] THEN FALSE
                         ELSE before[ProofreadFlag[f]]
                   /\ ~before[ProofreadFlag[f]] => ~after[ProofreadFlag[f]]]_vars

\* a user who may not proofread submitted another chant_range, another
\* proofread_by, a changed volpiano and every flag set; the save was made and
\* left the volpiano flag off, one of the others on
C25_Witness ==
    /\ context.status = "saved"
    /\ context.user = "editor"
    /\ context.form.volpiano_proofread
    /\ context.form.manuscript_full_text_proofread
    /\ \E c \in chants :
          /\ c.last_updated_by = "editor"
          /\ c.volpiano = context.form.volpiano
          /\ ~c.volpiano_proofread
          /\ c.manuscript_full_text_proofread
          /\ c.chant_range # context.form.chant_range
          /\ c.proofread_by # context.form.proofread_by

(***************************************************************************)
(* The touch_all_chants command                                            *)
(***************************************************************************)
\* the largest table the command is run over
MaxChants == 2001

CHUNK_SIZE == 1000

\* chants[start_index : start_index + CHUNK_SIZE] over rows in the order the
\* query of the chunk yields them
Slice(rows, start_index) ==
    SubSeq(rows, start_index + 1,
           IF start_index + CHUNK_SIZE < Len(rows) THEN start_index + CHUNK_SIZE
           ELSE Len(rows))

\* Chant.objects.all() carries no order_by, so each chunk is a LIMIT/OFFSET
\* query without ORDER BY: the rows come in the order the table holds them.
\* A save writes a new version of the row; of the places the database may
\* write it, two are kept: where the row was, and behind every other row.
RowsAfterSaves(rows, start_index) ==
    {rows,
     SubSeq(rows, 1, start_index)
        \o SubSeq(rows, start_index + CHUNK_SIZE + 1, Len(rows))
        \o Slice(rows, start_index)}

\* lines 22-24
Command_handle_begin ==
    /\ pc = "idle"
    /\ pc' = "while"
    /\ context' = [status |-> "running", chants_count |-> Len(chants), start_index |-> 0,
                   saves |-> [id \in 1..Len(chants) |-> 0], stdout |-> <<>>]
    /\ UNCHANGED <<chants, sequences, request, object_list, response, previous, callers>>

\* lines 25-32: one turn of the while loop
Command_handle_chunk ==
    /\ pc = "while"
    /\ context.start_index <= context.chants_count
    /\ \E chunk \in {Slice(chants, context.start_index)} :
       \E saved \in {{chunk[i] : i \in 1..Len(chunk)}} :
          /\ context' = [context EXCEPT
                !.stdout = Append(@, context.start_index),
                !.saves = [id \in DOMAIN @ |-> IF id \in saved THEN @[id] + 1 ELSE @[id]],
                !.start_index = @ + CHUNK_SIZE]
          /\ chants' \in RowsAfterSaves(chants, context.start_index)
    /\ UNCHANGED <<pc, sequences, request, object_list, response, previous, callers>>

\* lines 34-36
Command_handle_success ==
    /\ pc = "while"
    /\ ~(context.start_index <= context.chants_count)
    /\ pc' = "done"
    /\ context' = [context EXCEPT !.status = "Success"]
    /\ UNCHANGED <<chants, sequences, request, object_list, response, previous, callers>>

\* the table holds the ids 1..n in the order they were inserted
InitTouch ==
    /\ \E n \in 0..MaxChants : chants = [i \in 1..n |-> i]
    /\ sequences = {}
    /\ request = NoRequest
    /\ pc = "idle"
    /\ object_list = EmptyQuerySet
    /\ response = NoResponse
    /\ previous = NoPrevious
    /\ callers = NoCallers
    /\ context = NoContext

NextTouch ==
    \/ Command_handle_begin
    \/ Command_handle_chunk
    \/ Command_handle_success

SpecTouch == InitTouch /\ [][NextTouch]_vars

\* C26: on a table whose set of chants does not change during the run, the
\* command ends with the success message having saved every chant exactly
\* once, in consecutive chunks of 1000, whatever the number of chants.
C26_EveryChantSavedOnce ==
    pc = "done" =>
        /\ context.status = "Success"
        /\ \A id \in 1..context.chants_count : context.saves[id] = 1
        /\ \A k \in 1..Len(context.stdout) : context.stdout[k] = (k - 1) * CHUNK_SIZE

(***************************************************************************)
(* The folio before and the folio after, on the chant page and on the edit *)
(* page of one source                                                      *)
(***************************************************************************)
\* what varies from chant to chant in the stores both pages are asked over
FolioCells ==
    [folio : {<<"0", "0", "1", "r">>, <<"0", "0", "2", "r">>, None},
     c_sequence : {1}, feast : {NoId, 1}]

FolioRank(cell) ==
    (CASE cell.folio = None -> 0 [] cell.folio = <<"0", "0", "1", "r">> -> 1 [] OTHER -> 2) * 2
    + (IF cell.feast = NoId THEN 0 ELSE 1)

\* up to MaxEditChants chants of source 1, with ids 1..n
InitFolios ==
    /\ \E n \in 0..MaxEditChants :
          \E cells \in [1..n -> FolioCells] :
             /\ \A i, j \in 1..n : i < j => FolioRank(cells[i]) <= FolioRank(cells[j])
             /\ chants = DetailStore(cells, 1, 1)
    /\ sequences = {}
    /\ request = NoRequest
    /\ pc = "idle"
    /\ object_list = EmptyQuerySet
    /\ response = NoResponse
    /\ previous = NoPrevious
    /\ callers = NoCallers
    /\ context = NoContext

NextFolios ==
    \/ ChantDetailView_get_context_data
    \/ ChantDetailView_render
    \/ SourceEditChantsView_get
    \/ SourceEditChantsView_render

SpecFolios == InitFolios /\ [][NextFolios]_vars

\* the distinct folio labels of source 1, ascending
FolioLabels == Folios(OfSource(chants, 1))

HasLabel(folio) == \E i \in 1..Len(FolioLabels) : FolioLabels[i] = folio

\* the page names the label before the current folio and the label after it,
\* and None exactly at the two ends of the labels
Neighbours(page, folio) ==
    LET index == IndexOf(FolioLabels, folio)
    IN  /\ page.previous_folio = IF index = 1 THEN None ELSE FolioLabels[index - 1]
        /\ page.next_folio = IF index = Len(FolioLabels) THEN None
                             ELSE FolioLabels[index + 1]
        /\ page.previous_folio = None <=> index = 1
        /\ page.next_folio = None <=> index = Len(FolioLabels)

\* the chant page of a chant of the source was built
DetailPageBuilt == context.status = "200" /\ "pk" \in DOMAIN context

\* the edit page was asked by a user who may edit, without a feast
EditPageAsked ==
    /\ "GET" \in DOMAIN context
    /\ context.status \notin {"302", "403"}
    /\ ~Truthy(Get(context.GET, "feast"))

\* C27: in ChantDetailView and SourceEditChantsView, with the distinct folio
\* labels of the source sorted ascending, previous_folio is the label just
\* before the current folio and next_folio the label just after it, each None
\* exactly when the current folio is the first or the last label; on the edit
\* page a requested folio that no chant of the source has is a not-found
\* failure.
C27_PreviousAndNextFolio ==
    /\ DetailPageBuilt =>
          \A chant \in {c \in chants : c.id = context.pk} : Neighbours(context, chant.folio)
    /\ EditPageAsked =>
          \E folio \in {Get(context.GET, "folio")} :
             IF Truthy(folio) /\ ~HasLabel(folio) THEN context.status = "404"
             ELSE (context.status = "200" /\ FolioLabels # <<>>) =>
                     Neighbours(context, IF Truthy(folio) THEN folio ELSE FolioLabels[1])

(***************************************************************************)
(* The search bar of ChantSearchView                                       *)
(***************************************************************************)
\* the parameters the search bar is said to leave aside
SetAsideBySearchBar ==
    {"service", "genre", "cantus_id", "mode", "position", "melodies", "feast",
     "keyword", "op"}

\* the query string without them
WithoutSetAside(GET) == [k \in DOMAIN GET \ SetAsideBySearchBar |-> GET[k]]

\* a request of ChantSearchView with a search bar term has run get_queryset
SearchBarAsked ==
    /\ pc \in {"get_context_data", "done"}
    /\ request.view = "ChantSearchView"
    /\ Truthy(Get(request.GET, "search_bar"))

\* C28: with a non-empty search_bar the result of ChantSearchView depends on
\* search_bar, authentication, order and sort only: service, genre,
\* cantus_id, mode, position, melodies, feast, keyword and op have no effect.
\* A term with a digit selects the visible rows whose cantus_id contains it,
\* a term without digit those that have it at the beginning of
\* manuscript_full_text, manuscript_full_text_std_spelling or incipit, case
\* set aside.
C28_SearchBarAloneSelects ==
    SearchBarAsked =>
        /\ object_list.status = "ok"
        /\ object_list.chant_set =
              SearchBarMatching(chants, request.GET["search_bar"], request.is_authenticated)
        /\ object_list.sequence_set =
              SearchBarMatching(sequences, request.GET["search_bar"], request.is_authenticated)
        /\ object_list =
              ChantSearchView_get_queryset(WithoutSetAside(request.GET),
                                           request.is_authenticated)
        /\ (pc = "done" /\ response.status = "200") =>
              \A i \in 1..Len(response.rows) :
                 response.rows[i] \in object_list.chant_set \cup object_list.sequence_set

\* a search bar term came with a position no stored row has, or with a
\* service that is no number, and the row was returned all the same
C28_Witness ==
    /\ pc = "done"
    /\ request.view = "ChantSearchView"
    /\ Truthy(Get(request.GET, "search_bar"))
    /\ response.status = "200"
    /\ Len(response.rows) = 1
    /\ \/ /\ Truthy(Get(request.GET, "position"))
          /\ response.rows[1].position # request.GET["position"]
       \/ /\ Truthy(Get(request.GET, "service"))
          /\ ~IsIntLiteral(request.GET["service"])

(***************************************************************************)
(* The rows of ChantSearchMSView                                           *)
(***************************************************************************)
\* the rows of the queryset ChantSearchMSView.get_queryset returned
ReturnedBySearchMS ==
    IF /\ pc \in {"get_context_data", "done"}
       /\ request.view = "ChantSearchMSView"
       /\ object_list.status = "ok"
    THEN object_list.chant_set \cup object_list.sequence_set
    ELSE {}

\* C29: every row ChantSearchMSView.get_queryset returns belongs to the
\* source source_pk, and the rows are of one kind: sequences when the segment
\* of the source is 4064, chants otherwise; the page sent holds rows of the
\* queryset only.
C29_RowsOfTheSourceAndOfOneKind ==
    /\ \A r \in ReturnedBySearchMS :
          /\ r.source = request.source_pk
          /\ r.kind = IF Sources[request.source_pk].segment = 4064 THEN "sequence"
                      ELSE "chant"
    /\ (pc = "done" /\ request.view = "ChantSearchMSView") =>
          \A i \in 1..Len(response.rows) : response.rows[i] \in ReturnedBySearchMS

\* a chant and a sequence of the source are stored and the chant alone is
\* returned
C29_Witness ==
    /\ pc = "done"
    /\ request.view = "ChantSearchMSView"
    /\ response.status = "200"
    /\ Len(response.rows) = 1
    /\ response.rows[1].kind = "chant"
    /\ \E q \in sequences : q.source = request.source_pk

====
